---- MODULE Spec2Model ----
(***************************************************************************)
(* Model of the CSV ingestion cog (cogs/csv_processor.py): the scheduled   *)
(* task process_csv_files_task, the on-demand entry points                 *)
(* (process_csv_command, run_historical_parse,                             *)
(* run_historical_parse_with_config) and the per-server routine            *)
(* _process_server_csv_files, with the file-name and date handling the     *)
(* routine performs.                                                       *)
(*                                                                         *)
(* Text is modelled as sequences of one-character strings; a datetime is   *)
(* the number of whole seconds since 2000-01-01 00:00:00.                  *)
(***************************************************************************)
EXTENDS Integers, Sequences, FiniteSets, TLC

(***************************************************************************)
(* Characters and text                                                     *)
(***************************************************************************)
Digits == <<"0", "1", "2", "3", "4", "5", "6", "7", "8", "9">>

DigitSet == {Digits[i] : i \in 1..Len(Digits)}



IsDigits(s) == \A i \in 1..Len(s) : s[i] \in DigitSet

RECURSIVE NumVal(_)
NumVal(s) ==
    IF Len(s) = 0 THEN 0
    ELSE NumVal(SubSeq(s, 1, Len(s) - 1)) * 10
             + (CHOOSE i \in 1..Len(Digits) : Digits[i] = s[Len(s)]) - 1

Pad2(n) == <<Digits[(n \div 10) + 1], Digits[(n % 10) + 1]>>

Pad4(n) == Pad2(n \div 100) \o Pad2(n % 100)

\* s[i..] starts with the text sub
StartsAt(s, i, sub) ==
    /\ i + Len(sub) - 1 <= Len(s)
    /\ \A j \in 1..Len(sub) : s[i + j - 1] = sub[j]

\* Python's `sub in s`
Contains(s, sub) == \E i \in 1..(Len(s) + 1) : StartsAt(s, i, sub)

\* Python's s.endswith(sub)
EndsWith(s, sub) == Len(sub) <= Len(s) /\ StartsAt(s, Len(s) - Len(sub) + 1, sub)

CsvExt == <<".", "c", "s", "v">>

Slash == "/"

\* os.path.basename: the text after the last '/'
Basename(p) ==
    LET slashes == {i \in 1..Len(p) : p[i] = Slash}
    IN  IF slashes = {} THEN p
        ELSE SubSeq(p, (CHOOSE i \in slashes : \A j \in slashes : j <= i) + 1, Len(p))

\* os.path.join(dir, name) for a relative name
PathJoin(dir, name) ==
    IF Len(dir) > 0 /\ dir[Len(dir)] = Slash THEN dir \o name
    ELSE dir \o <<Slash>> \o name

\* s.split('.csv')[0]: the text before the first occurrence of '.csv'
BeforeCsv(s) ==
    LET hits == {i \in 1..Len(s) : StartsAt(s, i, CsvExt)}
    IN  IF hits = {} THEN s
        ELSE SubSeq(s, 1, (CHOOSE i \in hits : \A j \in hits : i <= j) - 1)

(***************************************************************************)
(* Calendar arithmetic of datetime / timedelta                             *)
(***************************************************************************)
SecondsPerHour == 3600
SecondsPerDay == 86400

DaysInMonth(y, m) ==
    IF m = 2 THEN (IF (y % 4 = 0 /\ y % 100 # 0) \/ y % 400 = 0 THEN 29 ELSE 28)
    ELSE IF m \in {4, 6, 9, 11} THEN 30 ELSE 31

\* days from 2000-01-01 to y-m-d in the proleptic Gregorian calendar: yy is
\* the year that starts in March, mp the month counted from March
DaysFromCivil(y, m, d) ==
    LET yy == IF m <= 2 THEN y - 1 ELSE y
        mp == IF m > 2 THEN m - 3 ELSE m + 9
    IN  (yy \div 400) * 146097
            + (yy % 400) * 365 + (yy % 400) \div 4 - (yy % 400) \div 100
            + (153 * mp + 2) \div 5 + d - 1 - 730425



\* the calendar date of a day number (inverse of DaysFromCivil): day doe of
\* the 400-year era era
CivilFromDays(z) ==
    LET era == (z + 730425) \div 146097
        doe == (z + 730425) % 146097
        yoe == (doe - doe \div 1460 + doe \div 36524 - doe \div 146096) \div 365
        \* day doy of the year y0 that starts in March
        y0  == yoe + era * 400
        doy == doe - (365 * yoe + yoe \div 4 - yoe \div 100)
        mp  == (5 * doy + 2) \div 153
    IN  [Y |-> y0 + (IF mp >= 10 THEN 1 ELSE 0),
         m |-> IF mp < 10 THEN mp + 3 ELSE mp - 9,
         d |-> doy - (153 * mp + 2) \div 5 + 1]

\* datetime(y, m, d, H, M, S)
MkDateTime(y, m, d, H, M, S) ==
    DaysFromCivil(y, m, d) * SecondsPerDay + H * SecondsPerHour + M * 60 + S

\* the text of the calendar date c and the second sec of the day in the
\* layout "%Y.%m.%d-%H.%M.%S"
FormatFields(c, sec) ==
    Pad4(c.Y) \o <<".">> \o Pad2(c.m) \o <<".">> \o Pad2(c.d) \o <<"-">>
        \o Pad2(sec \div SecondsPerHour) \o <<".">>
        \o Pad2((sec % SecondsPerHour) \div 60) \o <<".">> \o Pad2(sec % 60)

\* a strftime that would write the time of day of dt with the separators of
\* the log format "%Y-%m-%d %H:%M:%S"
StrftimeLogTime(dt) ==
    [k \in 1..19 |->
        IF k \in {14, 17} THEN ":"
        ELSE FormatFields(CivilFromDays(dt \div SecondsPerDay), dt % SecondsPerDay)[k]]

\* dt.strftime("%Y.%m.%d-%H.%M.%S")
Strftime(dt) == FormatFields(CivilFromDays(dt \div SecondsPerDay), dt % SecondsPerDay)

\* the text a strptime directive accepts: one or two digits in the
\* directive's range (%d also accepts a space followed by a digit)
FieldText(t, range, spaceOk) ==
    \/ /\ Len(t) \in {1, 2}
       /\ IsDigits(t)
       /\ NumVal(t) \in range
    \/ /\ spaceOk
       /\ Len(t) = 2 /\ t[1] = " " /\ t[2] \in DigitSet /\ NumVal(<<t[2]>>) \in range



\* a strptime format %Y s1 %m s2 %d s3 %H s4 %M s5 %S is given by its five
\* separators; this is "%Y.%m.%d-%H.%M.%S"
FmtPrimary == <<".", ".", "-", ".", ".">>

SepLen(c) == IF c = "" THEN 0 ELSE 1

\* start positions of the five fields after the year, for field widths w
FieldStart(seps, w, k) ==
    5 + SepLen(seps[1])
      + (IF k > 1 THEN w[1] + SepLen(seps[2]) ELSE 0)
      + (IF k > 2 THEN w[2] + SepLen(seps[3]) ELSE 0)
      + (IF k > 3 THEN w[3] + SepLen(seps[4]) ELSE 0)
      + (IF k > 4 THEN w[4] + SepLen(seps[5]) ELSE 0)



\* s starts with a four-digit year, and each of the five fields of widths w
\* lies within s, follows its separator and holds a text its directive
\* accepts
LayoutFits(seps, s, w) ==
    /\ Len(s) >= 4
    /\ IsDigits(SubSeq(s, 1, 4))
    /\ \A k \in 1..5 :
          LET q == FieldStart(seps, w, k)
          IN  /\ q + w[k] - 1 <= Len(s)
              /\ seps[k] = "" \/ (q - 1 <= Len(s) /\ s[q - 1] = seps[k])
              \* the ranges of %m, %d, %H, %M, %S
              /\ FieldText(SubSeq(s, q, q + w[k] - 1),
                           <<1..12, 1..31, 0..23, 0..59, 0..61>>[k], k = 2)

\* the numbers of the five fields of widths w
FieldValues(seps, s, w) ==
    [k \in 1..5 |->
        LET t == SubSeq(s, FieldStart(seps, w, k), FieldStart(seps, w, k) + w[k] - 1)
        IN  IF t[1] = " " THEN NumVal(<<t[2]>>) ELSE NumVal(t)]

\* the datetime of year y and fields F; ValueError (ok = FALSE) when the
\* match left text over or the fields do not make a date
StrptimeValue(consumed, y, F) ==
    IF consumed /\ y >= 1 /\ F[2] <= DaysInMonth(y, F[1]) /\ F[5] <= 59
    THEN [ok |-> TRUE, dt |-> MkDateTime(y, F[1], F[2], F[3], F[4], F[5])]
    ELSE [ok |-> FALSE, dt |-> 0]

\* the format's regular expression is matched from the start of s,
\* two-character alternatives of a directive before one-character ones:
\* of the field widths that fit, those tried first are taken
StrptimeIn(seps, s, layouts) ==
    IF layouts = {} THEN [ok |-> FALSE, dt |-> 0]
    ELSE LET w == CHOOSE u \in layouts : \A v \in layouts :
                     \/ v = u
                     \/ \E k \in 1..5 : /\ \A j \in 1..(k - 1) : u[j] = v[j]
                                        /\ u[k] > v[k]
         IN  StrptimeValue(FieldStart(seps, w, 5) + w[5] - 1 = Len(s),
                           NumVal(SubSeq(s, 1, 4)), FieldValues(seps, s, w))

\* datetime.strptime(s, format): ok = FALSE stands for ValueError
StrptimeFmt(seps, s) ==
    StrptimeIn(seps, s, {w \in [1..5 -> {1, 2}] : LayoutFits(seps, s, w)})

\* datetime.strptime(s, "%Y.%m.%d-%H.%M.%S")
Strptime(s) == StrptimeFmt(FmtPrimary, s)

\* try: the parsed datetime r; except ValueError: the value dflt
ParsedOr(r, dflt) == IF r.ok THEN r.dt ELSE dflt

(***************************************************************************)
(* Regular expressions: a pattern is a sequence of items, each a character *)
(* class repeated between lo and hi times (hi = -1: unbounded)             *)
(***************************************************************************)
\* a character is in the class of a pattern item; "rng" is the class [.-_],
\* the range from '.' to '_'
InClass(c, item) ==
    CASE item.k = "d"   -> c \in DigitSet
      [] item.k = "any" -> TRUE
      [] item.k = "rng" ->
            c \in {".", "/", ":", ";", "<", "=", ">", "?", "@", "[", "\\", "]", "^", "_"}
                     \cup DigitSet
                     \cup {"A", "B", "C", "D", "E", "F", "G", "H", "I", "J", "K", "L", "M",
                           "N", "O", "P", "Q", "R", "S", "T", "U", "V", "W", "X", "Y", "Z"}
      [] item.k = "lit" -> c = item.c

ReD(n) == [k |-> "d", c |-> "", lo |-> n, hi |-> n]
ReDn(lo, hi) == [k |-> "d", c |-> "", lo |-> lo, hi |-> hi]
ReLit(c) == [k |-> "lit", c |-> c, lo |-> 1, hi |-> 1]

ReAnyStar == [k |-> "any", c |-> "", lo |-> 0, hi |-> -1]
ReCsv == <<ReLit("."), ReLit("c"), ReLit("s"), ReLit("v")>>

\* items k.. of the pattern match s from position i on; with atEnd the match
\* has to stop at the end of s ('$')
RECURSIVE MatchFrom(_, _, _, _, _)
MatchFrom(pat, k, s, i, atEnd) ==
    IF k > Len(pat) THEN (atEnd => i = Len(s) + 1)
    ELSE
        LET rest == Len(s) - i + 1
            top  == IF pat[k].hi = -1 \/ pat[k].hi > rest THEN rest ELSE pat[k].hi
        IN  \E n \in pat[k].lo..top :
                /\ \A j \in i..(i + n - 1) : InClass(s[j], pat[k])
                /\ MatchFrom(pat, k + 1, s, i + n, atEnd)

\* re.search(pattern, s) finds a match
ReSearch(re, s) == \E i \in 1..(Len(s) + 1) : MatchFrom(re.pat, 1, s, i, re.atEnd)



(***************************************************************************)
(* Listing orders and stable sorting by a key                              *)
(***************************************************************************)
\* all orders in which the elements of a set can be listed (os.listdir)
RECURSIVE Orderings(_)
Orderings(S) ==
    IF S = {} THEN {<<>>}
    ELSE UNION {{<<a>> \o rest : rest \in Orderings(S \ {a})} : a \in S}

Range(seq) == {seq[i] : i \in 1..Len(seq)}

\* the least element of a set of numbers
Least(S) == CHOOSE h \in S : \A g \in S : h <= g

\* sorted(seq, key=...): keys is the sequence of the elements' keys; the sort
\* is stable, elements with equal keys keep their order
StableSort(seq, keys) ==
    LET n    == Len(seq)
        perm == CHOOSE p \in [1..n -> 1..n] :
                    /\ \A i, j \in 1..n : i # j => p[i] # p[j]
                    /\ \A i, j \in 1..n : i < j =>
                          \/ keys[p[i]] < keys[p[j]]
                          \/ keys[p[i]] = keys[p[j]] /\ p[i] < p[j]
    IN  [i \in 1..n |-> seq[perm[i]]]

(***************************************************************************)
(* File-name patterns of the routine                                       *)
(***************************************************************************)
DateStamp ==
    <<ReD(4), ReLit("."), ReD(2), ReLit("."), ReD(2), ReLit("-"),
      ReD(2), ReLit("."), ReD(2), ReLit("."), ReD(2)>>



\* date_format_patterns, in the order they are tried
\* the primary date pattern
date_format_pattern == [pat |-> DateStamp \o ReCsv, atEnd |-> TRUE]

\* the pattern used when probing a directory after a direct hit
AnyCsvPattern == [pat |-> <<ReAnyStar>> \o ReCsv, atEnd |-> TRUE]

date_format_patterns ==
    << date_format_pattern,
       [pat |-> <<ReD(4), ReLit("."), ReD(2), ReLit("."), ReD(2), ReAnyStar>>
                    \o ReCsv, atEnd |-> TRUE],
       [pat |-> <<ReD(4), ReLit("-"), ReD(2), ReLit("-"), ReD(2), ReAnyStar>>
                    \o ReCsv, atEnd |-> TRUE],
       [pat |-> <<ReD(2), ReLit("."), ReD(2), ReLit("."), ReD(4), ReAnyStar>>
                    \o ReCsv, atEnd |-> TRUE],
       [pat |-> <<ReDn(2, 4), [k |-> "rng", c |-> "", lo |-> 1, hi |-> 1],
                  ReDn(1, 2), [k |-> "rng", c |-> "", lo |-> 1, hi |-> 1],
                  ReDn(1, 4), ReAnyStar>>
                    \o ReCsv, atEnd |-> TRUE],
       AnyCsvPattern >>



\* the date-like part extracted from a file name by
\* re.search(r'(\d{4}\.\d{2}\.\d{2}-\d{2}\.\d{2}\.\d{2})', filename):
\* found = FALSE when there is no match, else the matched text
date_match(filename) ==
    LET hits == {i \in 1..Len(filename) : MatchFrom(DateStamp, 1, filename, i, FALSE)}
    IN  IF hits = {} THEN [found |-> FALSE, text |-> <<>>]
        ELSE [found |-> TRUE, text |-> SubSeq(filename, Least(hits), Least(hits) + 18)]

\* the sort key of a file: the date in its name, 2000-01-01 when the name
\* before '.csv' is not a date
get_file_date(file_path) ==
    ParsedOr(Strptime(BeforeCsv(Basename(file_path))), MkDateTime(2000, 1, 1, 0, 0, 0))

(***************************************************************************)
(* Server identity (utils/server_identity.py)                              *)
(***************************************************************************)
\* the uuid -> numeric id table; empty until load_server_mappings fills it
KNOWN_SERVERS == << >>

\* re.findall(r'(\d+)', s): the maximal runs of digits of s, in order
RECURSIVE DigitRuns(_, _)
DigitRuns(s, i) ==
    IF i > Len(s) THEN <<>>
    ELSE IF s[i] \notin DigitSet THEN DigitRuns(s, i + 1)
    ELSE LET stops == {j \in i..Len(s) : j = Len(s) \/ s[j + 1] \notin DigitSet}
             j     == CHOOSE e \in stops : \A g \in stops : e <= g
         IN  <<SubSeq(s, i, j)>> \o DigitRuns(s, j + 1)



\* an extraction that would take the first run of digits whatever its length
FromDigitRunsFirstOfAll(server_id, parts) ==
    IF parts # <<>>
    THEN [id |-> parts[1], known |-> FALSE]
    ELSE [id |-> server_id, known |-> FALSE]

\* the id taken from the digit runs of a uuid: the first of the runs of four
\* or more digits, else the first run; the uuid when it has no digits
FromDigitRuns(server_id, parts) ==
    LET longer == SelectSeq(parts, LAMBDA part : Len(part) >= 4)
    IN  IF parts # <<>>
        THEN [id |-> IF longer # <<>> THEN longer[1] ELSE parts[1], known |-> FALSE]
        ELSE [id |-> server_id, known |-> FALSE]

\* a resolver that would ask whether the id is numeric before the table
identify_server_numeric_first(known, server_id) ==
    IF Len(server_id) > 0 /\ IsDigits(server_id)
    THEN [id |-> server_id, known |-> FALSE]
    ELSE IF server_id \in DOMAIN known
    THEN [id |-> known[server_id], known |-> TRUE]
    ELSE FromDigitRuns(server_id, DigitRuns(server_id, 1))

\* identify_server reading the table known in KNOWN_SERVERS
identify_server(known, server_id) ==
    IF server_id \in DOMAIN known
    THEN [id |-> known[server_id], known |-> TRUE]
    ELSE IF Len(server_id) > 0 /\ IsDigits(server_id)
    THEN [id |-> server_id, known |-> FALSE]
    ELSE FromDigitRuns(server_id, DigitRuns(server_id, 1))

(***************************************************************************)
(* The servers, their configurations and the paths built from them         *)
(***************************************************************************)
NoTask == "none"

\* configured server ids; the host name of server 3 is written with two dots
Servers == {"1", "2", "3"}

\* the text of a server id
ServerText(s) == <<s>>

\* a server configuration as _process_server_config builds it
ServerConfig(s) ==
    [hostname |-> IF s = "3" THEN <<".", ".">> ELSE <<"h">>,
     original_server_id |-> ServerText(s),
     csv_pattern |-> [pat |-> DateStamp \o ReCsv, atEnd |-> FALSE]]

\* hostname.split(':')[0]
BeforeColon(h) ==
    LET hits == {i \in 1..Len(h) : h[i] = ":"}
    IN  IF hits = {} THEN h
        ELSE SubSeq(h, 1, (CHOOSE i \in hits : \A j \in hits : i <= j) - 1)

\* the id used to build the server directory
\* the identified id when it is known or differs from the configured
\* original_server_id, else the original_server_id; the server id itself
\* as the last resort
path_server_id(s) ==
    LET original_server_id == ServerConfig(s).original_server_id
        ident == identify_server(KNOWN_SERVERS, ServerText(s))
        first == IF ident.known \/ ident.id # original_server_id
                 THEN ident.id ELSE original_server_id
    IN  IF first = <<>> THEN ServerText(s) ELSE first

server_dir(s) == BeforeColon(ServerConfig(s).hostname) \o <<"_">> \o path_server_id(s)

Root == <<Slash>>
TxtDeathlogs == <<"d", "e", "a", "t", "h", "l", "o", "g", "s">>
TxtWorld0 == <<"w", "o", "r", "l", "d", "_", "0">>
TxtAttachedAssets == <<"a", "t", "t", "a", "c", "h", "e", "d", "_", "a", "s", "s", "e", "t", "s">>


base_path(s) == PathJoin(Root, server_dir(s))

\* <base>/actual1/deathlogs
deathlogs_path(s) ==
    PathJoin(PathJoin(base_path(s), <<"a", "c", "t", "u", "a", "l", "1">>), TxtDeathlogs)

\* map directory names that are checked (the first of the code's list)
map_subdirs == <<TxtWorld0>>

\* the base directories that are searched (three of the code's ten, in
\* order), each followed by its map subdirectories, then the root
possible_paths(s) ==
    LET WithMaps(b) ==
            <<b>> \o [k \in 1..Len(map_subdirs) |-> PathJoin(b, map_subdirs[k])]
    IN  WithMaps(deathlogs_path(s))
           \o WithMaps(PathJoin(base_path(s), TxtDeathlogs))
           \o WithMaps(PathJoin(Root, <<"l", "o", "g", "s">>))
           \o <<Root>>

\* the local fixture directory of the override, './attached_assets'
test_dir == <<".", Slash>> \o TxtAttachedAssets

(***************************************************************************)
(* The remote file store: the set of the paths of its regular files        *)
(***************************************************************************)
Dirname(p) ==
    LET slashes == {i \in 1..Len(p) : p[i] = Slash}
        last    == CHOOSE i \in slashes : \A j \in slashes : j <= i
    IN  IF slashes = {} THEN <<>>
        ELSE IF last = 1 THEN Root ELSE SubSeq(p, 1, last - 1)

\* the path p lies below the directory dir
IsUnder(p, dir) ==
    IF dir = Root THEN Len(p) > 1 /\ p[1] = Slash
    ELSE StartsAt(p, 1, dir \o <<Slash>>)

sftp_exists(store, path) == path \in store \/ \E f \in store : IsUnder(f, path)

\* names of the files of a directory that match a pattern
sftp_list_files(store, dir, re) ==
    {Basename(f) : f \in {g \in store : Dirname(g) = dir /\ ReSearch(re, Basename(g))}}

\* the directories directly below dir
sftp_subdirs(store, dir) ==
    {d \in {Dirname(f) : f \in store} : Dirname(d) = dir /\ d # dir}

\* every csv file below a root (recursive search)
sftp_find_csv_files(store, root) ==
    {f \in store : IsUnder(f, root) /\ EndsWith(f, CsvExt)}

(***************************************************************************)
(* Discovery of the candidate files (Locator)                              *)
(***************************************************************************)
\* the listing of a directory by the first of the patterns that lists
\* something, nothing when none does
FirstListing(store, dir, patterns) ==
    LET hits == {k \in 1..Len(patterns) : sftp_list_files(store, dir, patterns[k]) # {}}
    IN  IF hits = {} THEN {}
        ELSE sftp_list_files(store, dir, patterns[Least(hits)])

\* listing of one directory: the configured pattern, then the date patterns
\* in order until one lists something.  The listing of a predefined path
\* does not try the date patterns when the configured pattern is the
\* primary date pattern (primary_stops); the listing of a map directory
\* always does.
ListDirectory(store, dir, csv_pattern, primary_stops) ==
    LET first == sftp_list_files(store, dir, csv_pattern)
    IN  IF first # {} \/ (primary_stops /\ csv_pattern = date_format_pattern)
        THEN first
        ELSE FirstListing(store, dir, date_format_patterns)

\* the csv files of the map directories below the deathlogs path dl: the
\* known map directories that exist, else every subdirectory
MapFilesBelow(store, dl, csv_pattern) ==
    LET there == {d \in {PathJoin(dl, map_subdirs[k]) : k \in 1..Len(map_subdirs)} :
                     sftp_exists(store, d)}
        dirs  == IF there # {} THEN there ELSE sftp_subdirs(store, dl)
    IN  IF ~sftp_exists(store, dl) THEN {}
        ELSE UNION {{PathJoin(d, f) : f \in ListDirectory(store, d, csv_pattern, FALSE)} :
                    d \in dirs}

\* first strategy: csv files of the map directories below the deathlogs path
MapDirectoryFiles(store, s) ==
    MapFilesBelow(store, deathlogs_path(s), ServerConfig(s).csv_pattern)

\* recursive search: the files it keeps of root_csvs.  Files are kept only
\* when none matches the configured pattern and some match the primary date
\* pattern.
RecursiveFiles(root_csvs, csv_pattern) ==
    IF {f \in root_csvs : ReSearch(csv_pattern, Basename(f))} = {}
       /\ csv_pattern # date_format_pattern
    THEN {f \in root_csvs : ReSearch(date_format_pattern, Basename(f))}
    ELSE {}

\* file names generated for the direct existence probes: midnight of every
\* fifth day of the last thirty, and every sixth hour of today
test_filenames(now) ==
    {SubSeq(Strftime(now - i * SecondsPerDay), 1, 10)
        \o <<"-", "0", "0", ".", "0", "0", ".", "0", "0">> \o CsvExt :
        i \in {0, 5, 10, 15, 20, 25, 30}}
    \cup
    {SubSeq(Strftime(now), 1, 10)
        \o <<"-">> \o Pad2(h) \o <<".", "0", "0", ".", "0", "0">> \o CsvExt :
        h \in {0, 6, 12, 18}}

\* indexes of the predefined paths where a direct probe for one of the
\* names hits and the directory lists at least one csv file
ProbeHits(store, paths, names) ==
    {k \in 1..Len(paths) :
        /\ \E fn \in names : sftp_exists(store, PathJoin(paths[k], fn))
        /\ sftp_list_files(store, paths[k], AnyCsvPattern) # {}}



\* the search found nothing
NoneFound ==
    [outcome |-> "nothing", strategy |-> "none", csv_files |-> {},
     path_found |-> <<>>, remote |-> {}]

\* the listings of the predefined paths
Listings(store, paths, csv_pattern) ==
    [k \in 1..Len(paths) |-> ListDirectory(store, paths[k], csv_pattern, TRUE)]

\* the files found were found in the directory path
FoundIn(outcome, strategy, path, found) ==
    [outcome |-> outcome, strategy |-> strategy, csv_files |-> found,
     path_found |-> path, remote |-> {PathJoin(path, f) : f \in found}]

\* the first of the predefined paths from index from on whose listing
\* found files
Listed(paths, listing, from) ==
    LET hits == {k \in from..Len(paths) : listing[k] # {}}
    IN  IF hits = {} THEN NoneFound
        ELSE FoundIn("break", "list", paths[Least(hits)], listing[Least(hits)])

\* a search that would not look for a parent-traversal segment in the path
DiscoverInUnchecked(store, assets, dl, paths, listing, maps, rec, probes, local) ==
    IF maps # {}
    THEN IF Listed(paths, listing, 1).outcome = "break"
         THEN Listed(paths, listing, 1)
         ELSE [outcome |-> "exhausted", strategy |-> "map",
               csv_files |-> {Basename(f) : f \in maps},
               path_found |-> dl, remote |-> maps]
    ELSE IF listing[1] # {}
    THEN FoundIn("break", "list", paths[1], listing[1])
    ELSE IF rec # {}
    THEN IF Listed(paths, listing, 2).outcome = "break"
         THEN Listed(paths, listing, 2)
         ELSE [outcome |-> "exhausted", strategy |-> "recursive",
               csv_files |-> {Basename(f) : f \in rec},
               path_found |-> Dirname(CHOOSE f \in rec : TRUE), remote |-> rec]
    ELSE IF probes # {}
    THEN FoundIn("proceed", "probe", paths[Least(probes)],
                 sftp_list_files(store, paths[Least(probes)], AnyCsvPattern))
    ELSE IF assets.exists /\ local # {}
    THEN [outcome |-> "proceed", strategy |-> "local",
          csv_files |-> local, path_found |-> TxtAttachedAssets, remote |-> {}]
    ELSE NoneFound

\* The search for candidate files up to the point where the routine either
\* returns or goes on to select files, given the deathlogs path dl, the
\* predefined paths and their listings, the files of the map directories
\* (maps) and of the recursive search (rec), the paths where a probe hit
\* and the local fixture files.  outcome:
\*   "invalid"   the path contains a parent-traversal segment, return
\*   "break"     a listing of a predefined path found files, the search loop
\*               is left and the routine returns
\*   "exhausted" files were found by the map directories or the recursive
\*               search and no listing found files; the loop ends and the
\*               routine returns
\*   "nothing"   no remote file and no local file, return
\*   "proceed"   the routine goes on with csv_files
\* remote is the set of remote paths the search found.
DiscoverIn(store, assets, dl, paths, listing, maps, rec, probes, local) ==
    IF Contains(dl, <<".", ".">>)
    THEN [NoneFound EXCEPT !.outcome = "invalid"]
    ELSE IF maps # {}
    THEN IF Listed(paths, listing, 1).outcome = "break"
         THEN Listed(paths, listing, 1)
         ELSE [outcome |-> "exhausted", strategy |-> "map",
               csv_files |-> {Basename(f) : f \in maps},
               path_found |-> dl, remote |-> maps]
    ELSE IF listing[1] # {}
    THEN FoundIn("break", "list", paths[1], listing[1])
    ELSE IF rec # {}
    THEN IF Listed(paths, listing, 2).outcome = "break"
         THEN Listed(paths, listing, 2)
         ELSE [outcome |-> "exhausted", strategy |-> "recursive",
               csv_files |-> {Basename(f) : f \in rec},
               path_found |-> Dirname(CHOOSE f \in rec : TRUE), remote |-> rec]
    ELSE IF probes # {}
    THEN FoundIn("proceed", "probe", paths[Least(probes)],
                 sftp_list_files(store, paths[Least(probes)], AnyCsvPattern))
    ELSE IF assets.exists /\ local # {}
    THEN [outcome |-> "proceed", strategy |-> "local",
          csv_files |-> local, path_found |-> TxtAttachedAssets, remote |-> {}]
    ELSE NoneFound

\* the search of the routine for server s at time now
Discover(store, assets, s, now) ==
    LET paths == possible_paths(s)
    IN  DiscoverIn(store, assets, deathlogs_path(s), paths,
                   Listings(store, paths, ServerConfig(s).csv_pattern),
                   MapDirectoryFiles(store, s),
                   RecursiveFiles(sftp_find_csv_files(store, Root),
                                  ServerConfig(s).csv_pattern),
                   ProbeHits(store, paths, test_filenames(now)),
                   \* the local fixture files of the fallback: re.match
                   \* matches the pattern from the start of the name
                   {n \in DOMAIN assets.files :
                       MatchFrom(date_format_pattern.pat, 1, n, 1,
                                 date_format_pattern.atEnd)})

(***************************************************************************)
(* Selection of the new files                                              *)
(***************************************************************************)
DEBUG_FORCE_DAYS == 365
FutureBufferHours == 1
DefaultLookbackDays == 1

\* the date formats tried after the first parse failed
AlternativeFormats ==
    << FmtPrimary,                   \* %Y.%m.%d-%H.%M.%S
       <<"-", "-", "-", ".", ".">>,  \* %Y-%m-%d-%H.%M.%S
       <<".", ".", "_", ".", ".">>,  \* %Y.%m.%d_%H.%M.%S
       <<"", "", "-", "", "">> >>    \* %Y%m%d-%H%M%S



\* a filter that would drop the files whose name gives no date
FilterKeepsFailClosed(m, first, last_time_date, now) ==
    /\ m.found
    /\ first.ok
    /\ first.dt <= now + FutureBufferHours * SecondsPerHour
    /\ first.dt > last_time_date

\* whether the filter keeps a file, given the match m of the date pattern
\* in its name and the result first of parsing the matched text; when the
\* first format fails, the date by the first alternative format that parses
\* must be newer than the cursor, and the file is kept when no format parses
FilterKeeps(m, first, last_time_date, now) ==
    IF ~m.found THEN TRUE
    ELSE IF first.ok
    THEN IF first.dt > now + FutureBufferHours * SecondsPerHour THEN FALSE
         ELSE first.dt > last_time_date
    ELSE \E parsed \in {{k \in 1..Len(AlternativeFormats) :
                            StrptimeFmt(AlternativeFormats[k], m.text).ok}} :
            IF parsed = {} THEN TRUE
            ELSE StrptimeFmt(AlternativeFormats[Least(parsed)], m.text).dt
                    > last_time_date

\* whether the filter appends file f to new_files
IsNewFile(f, last_time_str, now) ==
    LET m == date_match(Basename(f))
    IN  FilterKeeps(m, Strptime(m.text), Strptime(last_time_str).dt, now)



\* the new files taken in the order of the filter, without sorting them
SortByFileDateKeepsOrder(new_files) ==
    new_files

\* sorted(new_files, key=get_file_date)
SortByFileDate(new_files) ==
    StableSort(new_files, [i \in 1..Len(new_files) |-> get_file_date(new_files[i])])

HistoricalThresholdDays == 7

\* a mode that would be historical only beyond seven full days
is_historical_mode_beyond(start_date, now) ==
    start_date.set /\ (now - start_date.dt) \div SecondsPerDay > HistoricalThresholdDays

\* is_historical_mode: (now - start_date).days >= 7
is_historical_mode(start_date, now) ==
    start_date.set /\ (now - start_date.dt) \div SecondsPerDay >= HistoricalThresholdDays



(***************************************************************************)
(* The world the model runs in: clock, file names, stores, local fixtures  *)
(***************************************************************************)
\* the clock at the start
Now0 == MkDateTime(2025, 5, 4, 12, 0, 0)

\* how far the clock moves in one step, and how often it moves
ClockStep == 110
MaxClockTicks == 3

\* how many ticks the scheduled loop makes next to a command task and on
\* its own, and how many commands each command task starts
MaxTicks == 1
MaxCycles == 2
MaxCommands == 1

\* most events a file carries
MaxEvents == 1

\* most events of the files whose events are followed one by one, and most
\* such files
MaxFileEvents == 2
MaxFiles == 2

FileName(y, m, d) ==
    Pad4(y) \o <<".">> \o Pad2(m) \o <<".">> \o Pad2(d)
        \o <<"-", "0", "0", ".", "0", "0", ".", "0", "0">> \o CsvExt

\* the file names of the world: bad_date carries a date-like text that is
\* no date, no_date carries none
Name ==
    [ancient  |-> FileName(2024, 1, 1),
     old      |-> FileName(2025, 5, 1),
     new      |-> FileName(2025, 5, 3),
     today    |-> FileName(2025, 5, 4),
     future   |-> FileName(2025, 5, 6),
     bad_date |-> FileName(2025, 13, 1),
     no_date  |-> <<"d", "e", "a", "t", "h", "s">> \o CsvExt]



\* the files of the store of a kind of server s, below its deathlogs path
\* or below <base>/deathlogs
StoreOf(kind, s) ==
    LET alt == PathJoin(base_path(s), TxtDeathlogs)
    IN  CASE kind = "empty"     -> {}
          [] kind = "canonical" -> {PathJoin(deathlogs_path(s), Name.new)}
          [] kind = "map"       ->
                 {PathJoin(PathJoin(deathlogs_path(s), TxtWorld0), Name.new)}
          [] kind = "probe"     -> {PathJoin(alt, Name.today), PathJoin(alt, Name.old)}
          [] kind = "hidden"    -> {PathJoin(alt, Name.new)}
          [] kind = "both"      ->
                 {PathJoin(deathlogs_path(s), Name.old),
                  PathJoin(PathJoin(deathlogs_path(s), TxtWorld0), Name.new)}

\* the content of a file: unreadable, empty text, or text with events
Text(n) == [kind |-> "text", events |-> n]
Unreadable == [kind |-> "none", events |-> 0]



\* states of the local attached_assets directory
AssetChoices ==
    { [exists |-> FALSE, files |-> <<>>],
      [exists |-> TRUE, files |-> <<>>],
      [exists |-> TRUE,
       files |-> [n \in {Name.old, Name.new} |-> Text(MaxEvents)]],
      [exists |-> TRUE,
       files |-> [n \in {Name.ancient, Name.bad_date, Name.no_date} |->
                     IF n = Name.bad_date THEN Text(0) ELSE Text(MaxEvents)]],
      [exists |-> TRUE,
       files |-> [n \in {Name.old, Name.new, Name.no_date} |-> Text(0)]],
      [exists |-> TRUE,
       files |-> [n \in {Name.old, Name.new, Name.future} |->
                     IF n = Name.new THEN [kind |-> "empty", events |-> 0]
                     ELSE Text(MaxEvents)]] }

(***************************************************************************)
(* State                                                                   *)
(***************************************************************************)
SCHED == "sched"
Commands == {"cmd1", "cmd2"}
Tasks == {SCHED} \cup Commands




\* lists of configured servers _get_server_configs can return
ConfigLists == {<<>>, <<"1", "2">>}

MEMORY_LIMIT_MB == 500
CYCLE_BUDGET_SECONDS == 300
SERVER_TIMEOUT_SECONDS == 120

\* memory readings (MB) the check can see
MemoryReadings == {MEMORY_LIMIT_MB, MEMORY_LIMIT_MB + 1}

VARIABLES
    now,              \* the wall clock
    store,            \* store[s]: the remote file store of server s
    assets,           \* the local attached_assets directory
    is_processing,    \* self.is_processing
    processing_lock,  \* the task holding self.processing_lock, or NoTask
    last_processed,   \* self.last_processed: dict server -> datetime
    pc,               \* pc[t]: where task t is
    frame,            \* frame[t]: the arguments and locals of task t
    cycle,            \* the locals of the scheduled cycle
    last_tick,        \* what the latest tick of the scheduled task did
    used,             \* how many ticks and commands there were so far
    sftp_managers,    \* self.sftp_managers: server -> last_error of its manager
    log,              \* the warnings and errors logged about servers
    db,               \* self.bot.db: players, rivalries and kills
    batch,            \* the loop over the events of one parsed file
    call              \* the calls of helper functions looked at on their own:
                      \* helper names the function a behaviour looks at

vars == <<now, store, assets, is_processing, processing_lock, last_processed,
          pc, frame, cycle, last_tick, used, sftp_managers, log, db, batch,
          call>>

NoDate == [set |-> FALSE, dt |-> 0]
SomeDate(dt) == [set |-> TRUE, dt |-> dt]

Frame0 ==
    [kind |-> "", srv |-> "", amount |-> 0,
     start_date |-> NoDate, cursor_before |-> NoDate, started |-> 0,
     last_time |-> 0, strategy |-> "none", remote |-> {},
     csv_files |-> <<>>, new_files |-> <<>>, files_to_process |-> <<>>,
     only_new_lines |-> FALSE, i |-> 0,
     files_processed |-> 0, events_processed |-> 0, parsed |-> {}]

Cycle0 == [start_time |-> 0, server_configs |-> <<>>, i |-> 0]

\* d[k] = v on a dict
Put(d, k, v) == [x \in (DOMAIN d) \cup {k} |-> IF x = k THEN v ELSE d[x]]

\* the cursor of a server as a dated value
CursorOf(lp, s) == IF s \in DOMAIN lp THEN SomeDate(lp[s]) ELSE NoDate

\* the state after construction of the cog, for a choice of the world and
\* of the tasks that take part (pc "off": the task never runs)
InitWith(kinds, fixtures, pcs, ticks, files) ==
    /\ now = Now0
    /\ \E k \in kinds : store = [s \in Servers |-> StoreOf(k, s)]
    /\ assets \in fixtures
    /\ is_processing = FALSE
    /\ processing_lock = NoTask
    /\ last_processed = [s \in {} |-> 0]
    /\ pc = pcs
    /\ frame = [t \in Tasks |-> Frame0]
    /\ cycle = Cycle0
    /\ last_tick = "none"
    /\ used = [ticks |-> 0, max_ticks |-> ticks, commands |-> [t \in Commands |-> 0]]
    /\ sftp_managers = [s \in {} |-> ""]
    /\ log = {}
    /\ db = [players |-> <<>>, rivalries |-> <<>>, kills |-> <<>>]
    /\ batch = [status |-> "idle", srv |-> "", n |-> 0, i |-> 0,
                processed_count |-> 0, errors |-> 0, files_processed |-> 0,
                events_processed |-> 0, handled |-> 0, max_files |-> files,
                last |-> [outcome |-> "none"]]
    /\ call = [helper |-> "none", numeric_ids |-> <<>>,
               file_date |-> [file |-> <<>>, date |-> [ok |-> FALSE, dt |-> 0],
                              text |-> <<>>],
               identify |-> [called |-> FALSE, known |-> <<>>, server_id |-> <<>>,
                             result |-> [id |-> <<>>, known |-> FALSE]],
               historical |-> [called |-> FALSE],
               configs |-> [called |-> FALSE],
               delimiter |-> [called |-> FALSE],
               rows |-> [called |-> FALSE]]

\* a small world
Init ==
    InitWith({"empty"},
             {[exists |-> TRUE, files |-> [n \in {Name.new} |-> Text(MaxEvents)]]},
             [t \in Tasks |-> "idle"], MaxTicks, 1)

\* the small world, with more ticks of the scheduled loop
InitCycle ==
    InitWith({"empty"},
             {[exists |-> TRUE, files |-> [n \in {Name.new} |-> Text(MaxEvents)]]},
             [t \in Tasks |-> "idle"], MaxCycles, 1)

\* the small world, with a file of each server whose events are followed
InitFiles ==
    InitWith({"empty"},
             {[exists |-> TRUE, files |-> [n \in {Name.new} |-> Text(MaxEvents)]]},
             [t \in Tasks |-> "idle"], MaxTicks, MaxFiles)

\* every world
InitRun ==
    InitWith({"empty", "canonical", "map", "probe", "hidden", "both"}, AssetChoices,
             [t \in Tasks |-> "idle"], MaxTicks, 1)



\* the world and the counters of started work
rest == <<store, assets, used, sftp_managers, log, db, batch, call>>

\* what a failed call leaves in last_error of a server's SFTPManager
sftp_last_error == {"Auth failed", "Connection lost"}

\* a line of the log about server srv, written during tick number
\* used.ticks of the scheduled task
Logged(srv, what) == [tick |-> used.ticks, srv |-> srv, what |-> what]

(***************************************************************************)
(* The clock                                                               *)
(***************************************************************************)
ClockTick ==
    /\ now < Now0 + MaxClockTicks * ClockStep
    /\ now' = now + ClockStep
    /\ UNCHANGED <<rest, is_processing, processing_lock, last_processed,
                   pc, frame, cycle, last_tick>>

(***************************************************************************)
(* process_csv_files_task: one tick of the scheduled loop                  *)
(***************************************************************************)
\* a tick that would start a cycle although it finds the flag set
TickSkipStartsCycle ==
    /\ pc[SCHED] = "idle"
    /\ is_processing
    /\ used.ticks < used.max_ticks
    /\ used' = [used EXCEPT !.ticks = @ + 1]
    /\ cycle' = [Cycle0 EXCEPT !.start_time = now]
    /\ pc' = [pc EXCEPT ![SCHED] = "get_configs"]
    /\ last_tick' = "started"
    /\ UNCHANGED <<now, store, call, assets, db, batch, sftp_managers, log, is_processing, processing_lock, last_processed, frame>>

\* the tick finds the flag set and returns
TickSkip ==
    /\ pc[SCHED] = "idle"
    /\ is_processing
    /\ used.ticks < used.max_ticks
    /\ used' = [used EXCEPT !.ticks = @ + 1]
    /\ last_tick' = "skipped"
    /\ UNCHANGED <<now, store, call, assets, db, batch, sftp_managers, log, is_processing, processing_lock, last_processed,
                   pc, frame, cycle>>

\* a memory check above the limit that would return with the flag set
TickMemorySkipKeepsFlag ==
    /\ pc[SCHED] = "idle"
    /\ ~is_processing
    /\ used.ticks < used.max_ticks
    /\ used' = [used EXCEPT !.ticks = @ + 1]
    /\ \E memory_mb \in MemoryReadings : memory_mb > MEMORY_LIMIT_MB
    /\ last_tick' = "memory"
    /\ is_processing' = TRUE
    /\ UNCHANGED <<now, store, call, assets, db, batch, sftp_managers, log, processing_lock, last_processed,
                   pc, frame, cycle>>

\* the memory check finds the process above the limit and the tick returns
TickMemorySkip ==
    /\ pc[SCHED] = "idle"
    /\ ~is_processing
    /\ used.ticks < used.max_ticks
    /\ used' = [used EXCEPT !.ticks = @ + 1]
    /\ \E memory_mb \in MemoryReadings : memory_mb > MEMORY_LIMIT_MB
    /\ last_tick' = "memory"
    /\ UNCHANGED <<now, store, call, assets, db, batch, sftp_managers, log, is_processing, processing_lock, last_processed,
                   pc, frame, cycle>>

\* the tick starts a cycle: the memory is within the limit, or psutil is not
\* there (ImportError, passed over), or the check raised, which is logged
TickStart ==
    /\ pc[SCHED] = "idle"
    /\ ~is_processing
    /\ used.ticks < used.max_ticks
    /\ used' = [used EXCEPT !.ticks = @ + 1]
    /\ \E check \in {"ok", "unavailable", "error"}, memory_mb \in MemoryReadings :
          /\ check = "ok" => ~(memory_mb > MEMORY_LIMIT_MB)
          /\ log' = IF check = "error"
                    THEN log \cup {[tick |-> used.ticks + 1, srv |-> "", what |-> "memory_error"]}
                    ELSE log
    /\ is_processing' = TRUE
    /\ cycle' = [Cycle0 EXCEPT !.start_time = now]
    /\ pc' = [pc EXCEPT ![SCHED] = "get_configs"]
    /\ last_tick' = "started"
    /\ UNCHANGED <<now, store, call, assets, db, batch, sftp_managers, processing_lock, last_processed, frame>>

\* an end of a cycle that would leave the flag as it is
CycleFinallyKeepsFlag ==
    /\ is_processing' = is_processing
    /\ cycle' = Cycle0
    /\ pc' = [pc EXCEPT ![SCHED] = "idle"]

\* the end of a cycle (the finally clause)
CycleFinally ==
    /\ is_processing' = FALSE
    /\ cycle' = Cycle0
    /\ pc' = [pc EXCEPT ![SCHED] = "idle"]

\* _get_server_configs returned
SchedConfigs ==
    /\ pc[SCHED] = "get_configs"
    /\ \E server_configs \in ConfigLists :
          IF server_configs = <<>>
          THEN CycleFinally
          ELSE /\ cycle' = [cycle EXCEPT !.server_configs = server_configs, !.i = 1]
               /\ pc' = [pc EXCEPT ![SCHED] = "loop"]
               /\ UNCHANGED is_processing
    /\ UNCHANGED <<now, rest, processing_lock, last_processed, frame, last_tick>>

\* a loop head that would start the next server whatever time has passed
SchedNextWithoutBudget ==
    /\ pc[SCHED] = "loop"
    /\ IF cycle.i > Len(cycle.server_configs)
       THEN /\ CycleFinally
            /\ UNCHANGED <<frame, log>>
       ELSE /\ frame' = [frame EXCEPT ![SCHED] =
                            [Frame0 EXCEPT !.kind = "sched",
                                           !.srv = cycle.server_configs[cycle.i],
                                           !.started = now]]
            /\ pc' = [pc EXCEPT ![SCHED] = "begin"]
            /\ UNCHANGED <<is_processing, cycle, log>>
    /\ UNCHANGED <<now, store, call, assets, db, batch, used, sftp_managers,
                   processing_lock, last_processed, last_tick>>

\* the head of the loop over the servers: the cycle ends after the last
\* server or, with a warning, when the budget is spent; else the next
\* server is started
SchedNext ==
    /\ pc[SCHED] = "loop"
    /\ IF cycle.i > Len(cycle.server_configs)
       THEN /\ CycleFinally
            /\ UNCHANGED <<frame, log>>
       ELSE IF now - cycle.start_time > CYCLE_BUDGET_SECONDS
       THEN /\ CycleFinally
            /\ log' = log \cup {Logged(cycle.server_configs[cycle.i], "budget")}
            /\ UNCHANGED frame
       ELSE /\ frame' = [frame EXCEPT ![SCHED] =
                            [Frame0 EXCEPT !.kind = "sched",
                                           !.srv = cycle.server_configs[cycle.i],
                                           !.started = now]]
            /\ pc' = [pc EXCEPT ![SCHED] = "begin"]
            /\ UNCHANGED <<is_processing, cycle, log>>
    /\ UNCHANGED <<now, store, call, assets, db, batch, used, sftp_managers,
                   processing_lock, last_processed, last_tick>>

\* a timeout that would end the cycle instead of going on with the next
\* server
SchedTimeoutEndsCycle ==
    /\ frame[SCHED].kind = "sched"
    /\ pc[SCHED] \in {"discover", "apply"}
    /\ now - frame[SCHED].started >= SERVER_TIMEOUT_SECONDS
    /\ CycleFinally
    /\ frame' = [frame EXCEPT ![SCHED] = Frame0]
    /\ log' = log \cup {Logged(frame[SCHED].srv, "timeout")}
    /\ UNCHANGED <<now, store, call, assets, db, batch, used, sftp_managers, processing_lock,
                   last_processed, last_tick>>

\* the per-server wait_for ran out while the routine was suspended: the
\* routine is cancelled and the cycle continues with the next server,
\* without the pause
SchedTimeout ==
    /\ frame[SCHED].kind = "sched"
    /\ pc[SCHED] \in {"discover", "apply"}
    /\ now - frame[SCHED].started >= SERVER_TIMEOUT_SECONDS
    /\ pc' = [pc EXCEPT ![SCHED] = "loop"]
    /\ frame' = [frame EXCEPT ![SCHED] = Frame0]
    /\ cycle' = [cycle EXCEPT !.i = @ + 1]
    /\ log' = log \cup {Logged(frame[SCHED].srv, "timeout")}
    /\ UNCHANGED <<now, store, call, assets, db, batch, used, sftp_managers, is_processing,
                   processing_lock, last_processed, last_tick>>

\* the routine returned to the cycle, which pauses before the next server
SchedAfterServer ==
    /\ pc[SCHED] = "ret"
    /\ pc' = [pc EXCEPT ![SCHED] = "sleep"]
    /\ frame' = [frame EXCEPT ![SCHED] = Frame0]
    /\ UNCHANGED <<now, rest, is_processing, processing_lock, last_processed,
                   cycle, last_tick>>

SchedSleep ==
    /\ pc[SCHED] = "sleep"
    /\ cycle' = [cycle EXCEPT !.i = @ + 1]
    /\ pc' = [pc EXCEPT ![SCHED] = "loop"]
    /\ UNCHANGED <<now, rest, is_processing, processing_lock, last_processed,
                   frame, last_tick>>

(***************************************************************************)
(* _process_server_csv_files, run by task t                                *)
(***************************************************************************)
\* entry: the time to compare against and the manager of the server, which
\* is created when the server has none; with an authentication failure
\* remembered by the manager the routine returns (0, 0), else the
\* connection is awaited
RoutineBegin(t) ==
    /\ pc[t] = "begin"
    /\ LET f == frame[t]
           last_time ==
               IF f.start_date.set THEN f.start_date.dt
               ELSE IF f.srv \in DOMAIN last_processed THEN last_processed[f.srv]
               ELSE now - DefaultLookbackDays * SecondsPerDay
       IN  frame' = [frame EXCEPT ![t].last_time = last_time,
                                  ![t].cursor_before = CursorOf(last_processed, f.srv)]
    /\ sftp_managers' = IF frame[t].srv \in DOMAIN sftp_managers
                        THEN sftp_managers
                        ELSE Put(sftp_managers, frame[t].srv, "")
    /\ IF sftp_managers'[frame[t].srv] = "Auth failed"
       THEN /\ pc' = [pc EXCEPT ![t] = "ret"]
            /\ log' = log \cup {Logged(frame[t].srv, "skipped")}
       ELSE /\ pc' = [pc EXCEPT ![t] = "discover"]
            /\ log' = log
    /\ UNCHANGED <<now, store, call, assets, db, batch, used, is_processing, processing_lock,
                   last_processed, cycle, last_tick>>

\* connecting or a remote call raises, and the manager remembers the error:
\* the routine logs it and returns what it has counted
RoutineError(t) ==
    /\ pc[t] = "discover"
    /\ pc' = [pc EXCEPT ![t] = "ret"]
    /\ \E last_error \in sftp_last_error :
          sftp_managers' = Put(sftp_managers, frame[t].srv, last_error)
    /\ log' = log \cup {Logged(frame[t].srv, "error")}
    /\ UNCHANGED <<now, store, call, assets, db, batch, used, is_processing, processing_lock,
                   last_processed, frame, cycle, last_tick>>

\* the cursor value forced before the filter
old_time(t_now) == t_now - DEBUG_FORCE_DAYS * SecondsPerDay






\* the search for files and, when it goes on, the forced cursor, the
\* override by the local files, the filter, the sort and the mode
RoutineDiscover(t) ==
    /\ pc[t] = "discover"
    /\ \E D \in {Discover(store[frame[t].srv], assets, frame[t].srv, now)} :
          IF D.outcome # "proceed"
          THEN /\ frame' = [frame EXCEPT ![t].strategy = D.strategy,
                                         ![t].remote = D.remote]
               /\ pc' = [pc EXCEPT ![t] = "ret"]
               /\ UNCHANGED last_processed
          ELSE \E order \in Orderings({n \in DOMAIN assets.files : EndsWith(n, CsvExt)}) :
               \* the files the routine goes on with: the files the search
               \* found are sorted and then dropped (csv_files = []), and
               \* the csv files of the local fixture directory are taken
               \* in listing order
               \E csv_files \in {IF assets.exists
                                 THEN [k \in 1..Len(order) |->
                                          PathJoin(test_dir, order[k])]
                                 ELSE <<>>} :
               \* new_files: the files of csv_files the filter keeps, in
               \* their order
               \E new_files \in {SelectSeq(csv_files,
                                    LAMBDA f : IsNewFile(f, Strftime(old_time(now)), now))} :
               \E sorted_files \in {SortByFileDate(new_files)} :
                   /\ last_processed' = Put(last_processed, frame[t].srv, old_time(now))
                   /\ frame' = [frame EXCEPT ![t].strategy = D.strategy,
                                             ![t].remote = D.remote,
                                             ![t].last_time = old_time(now),
                                             ![t].csv_files = csv_files,
                                             ![t].new_files = new_files,
                                             ![t].files_to_process = sorted_files,
                                             ![t].only_new_lines =
                                                 /\ ~is_historical_mode(
                                                        frame[t].start_date, now)
                                                 /\ sorted_files # <<>>,
                                             ![t].i = 1]
                   /\ pc' = [pc EXCEPT ![t] = "file"]
    /\ UNCHANGED <<now, rest, is_processing, processing_lock, cycle, last_tick>>

\* the content read for a file: local files are read from the fixture
\* directory, any other path is downloaded
ReadContent(file, local) ==
    IF Contains(file, TxtAttachedAssets)
    THEN IF Basename(file) \in DOMAIN local.files
         THEN {local.files[Basename(file)]} ELSE {Unreadable}
    ELSE {Unreadable} \cup {Text(n) : n \in 0..MaxEvents}

\* the next file is read: without content it is passed over, else its
\* events are parsed and their application is awaited
RoutineFile(t) ==
    /\ pc[t] = "file"
    /\ frame[t].i <= Len(frame[t].files_to_process)
    /\ \E content \in ReadContent(frame[t].files_to_process[frame[t].i], assets) :
          IF content.kind # "text"
          THEN /\ frame' = [frame EXCEPT ![t].i = @ + 1]
               /\ UNCHANGED pc
          ELSE /\ pc' = [pc EXCEPT ![t] = "apply"]
               /\ UNCHANGED frame
    /\ UNCHANGED <<now, rest, is_processing, processing_lock, last_processed,
                   cycle, last_tick>>

\* the events of the file are applied, the file is counted and, when it is
\* the last element of new_files, the cursor is written
RoutineApply(t) ==
    /\ pc[t] = "apply"
    /\ LET f    == frame[t]
           file == f.files_to_process[f.i]
           content == CHOOSE c \in ReadContent(file, assets) : c.kind = "text"
       IN  /\ \E processed \in 0..content.events :
                 frame' = [frame EXCEPT ![t].events_processed = @ + processed,
                                        ![t].files_processed = @ + 1,
                                        ![t].parsed = @ \cup {file},
                                        ![t].i = @ + 1]
           /\ last_processed' =
                 IF file = f.new_files[Len(f.new_files)]
                 THEN Put(last_processed, f.srv,
                          ParsedOr(Strptime(BeforeCsv(file)), now))
                 ELSE last_processed
    /\ pc' = [pc EXCEPT ![t] = "file"]
    /\ UNCHANGED <<now, rest, is_processing, processing_lock, cycle, last_tick>>

\* an exception while a file is handled is caught and the loop goes on
RoutineFileError(t) ==
    /\ pc[t] = "apply"
    /\ frame' = [frame EXCEPT ![t].i = @ + 1]
    /\ pc' = [pc EXCEPT ![t] = "file"]
    /\ UNCHANGED <<now, rest, is_processing, processing_lock, last_processed,
                   cycle, last_tick>>

\* every file was handled: the routine returns its counts
RoutineDone(t) ==
    /\ pc[t] = "file"
    /\ frame[t].i > Len(frame[t].files_to_process)
    /\ pc' = [pc EXCEPT ![t] = "ret"]
    /\ UNCHANGED <<now, rest, is_processing, processing_lock, last_processed,
                   frame, cycle, last_tick>>

(***************************************************************************)
(* The events of a parsed file: the loop over them and _process_kill_event *)
(***************************************************************************)
\* the normalized events a file can carry: ids and names may be empty
NormalizedEvents ==
    [server_id : Servers, timestamp : {MkDateTime(2025, 5, 3, 12, 34, 56)},
     killer_name : {"", "K"}, killer_id : {"", "1", "2"},
     victim_name : {"", "K", "V"}, victim_id : {"", "1", "2"},
     weapon : {"AK47", "suicide_by_relocation", "suicide"}, distance : {100}]

\* the kind categorize_event gives to an event
categorize_event(event) ==
    IF event.victim_id = "" THEN "unknown"
    ELSE IF \/ event.killer_id = event.victim_id
            \/ event.weapon \in {"suicide_by_relocation", "suicide"}
            \/ event.killer_name = event.victim_name
         THEN "suicide"
         ELSE "kill"

\* a check of suicides that would take two empty names for equal names
SuicideCheckAnyNames(event) ==
    IF event.killer_id # "" /\ event.victim_id # "" /\ event.killer_id = event.victim_id
    THEN [is_suicide |-> TRUE, killer_id |-> event.killer_id]
    ELSE IF event.weapon \in {"suicide_by_relocation", "suicide"}
    THEN [is_suicide |-> TRUE, killer_id |-> event.victim_id]
    ELSE IF event.killer_name = event.victim_name
    THEN [is_suicide |-> TRUE, killer_id |-> event.victim_id]
    ELSE [is_suicide |-> FALSE, killer_id |-> event.killer_id]

\* a check of suicides that would not look at the names
SuicideCheckNoNames(event) ==
    IF event.killer_id # "" /\ event.victim_id # "" /\ event.killer_id = event.victim_id
    THEN [is_suicide |-> TRUE, killer_id |-> event.killer_id]
    ELSE IF event.weapon \in {"suicide_by_relocation", "suicide"}
    THEN [is_suicide |-> TRUE, killer_id |-> event.victim_id]
    ELSE [is_suicide |-> FALSE, killer_id |-> event.killer_id]

\* the check of suicides of _process_kill_event: the flag is_suicide and
\* the killer_id the function goes on with
SuicideCheck(event) ==
    IF event.killer_id # "" /\ event.victim_id # "" /\ event.killer_id = event.victim_id
    THEN [is_suicide |-> TRUE, killer_id |-> event.killer_id]
    ELSE IF event.weapon \in {"suicide_by_relocation", "suicide"}
    THEN [is_suicide |-> TRUE, killer_id |-> event.victim_id]
    ELSE IF /\ event.killer_name # "" /\ event.victim_name # ""
            /\ event.killer_name = event.victim_name
    THEN [is_suicide |-> TRUE, killer_id |-> event.victim_id]
    ELSE [is_suicide |-> FALSE, killer_id |-> event.killer_id]

\* a _get_or_create_player that would insert a new player over the one
\* that is there
CreatePlayerAlways(d, server_id, player_id, player_name) ==
    [d EXCEPT !.players =
        Put(@, player_id, [server_id |-> server_id, name |-> player_name,
                           kills |-> 0, deaths |-> 0, suicides |-> 0])]

\* the database after _get_or_create_player: a player that is not found by
\* its player_id is inserted with zeroed counters
get_or_create_player(d, server_id, player_id, player_name) ==
    IF player_id \in DOMAIN d.players
    THEN d
    ELSE [d EXCEPT !.players =
             Put(@, player_id, [server_id |-> server_id, name |-> player_name,
                                kills |-> 0, deaths |-> 0, suicides |-> 0])]

\* the database after one persistence operation: Player.update_stats adds
\* to the counters of a player, Rivalry.record_kill counts the kill on the
\* edge of (server, killer, victim, weapon), update_nemesis_and_prey derives
\* nemesis and prey from the edges and changes none of them, insert_one
\* appends the document to the kills
Perform(d, op) ==
    CASE op.op = "player" ->
             get_or_create_player(d, op.server_id, op.player_id, op.player_name)
      [] op.op = "stats" ->
             [d EXCEPT !.players[op.player_id] =
                 [@ EXCEPT !.kills = @ + op.kills, !.deaths = @ + op.deaths,
                           !.suicides = @ + op.suicides]]
      [] op.op = "rivalry" ->
             [d EXCEPT !.rivalries =
                 Put(@, op.edge, IF op.edge \in DOMAIN @ THEN @[op.edge] + 1 ELSE 1)]
      [] op.op = "nemesis" -> d
      [] op.op = "kill_doc" -> [d EXCEPT !.kills = Append(@, op.doc)]

\* the persistence operations _process_kill_event issues, in order, for an
\* event it applies: those of a suicide, or those of a kill
Operations(event) ==
    LET c == SuicideCheck(event)
        player(id, name) == [op |-> "player", server_id |-> event.server_id,
                             player_id |-> id, player_name |-> name]
        stats(id, k, d, su) == [op |-> "stats", player_id |-> id, kills |-> k,
                                deaths |-> d, suicides |-> su]
    IN  IF c.is_suicide
        THEN << player(event.victim_id, event.victim_name),
                stats(event.victim_id, 0, 0, 1) >>
        ELSE << player(c.killer_id, event.killer_name),
                player(event.victim_id, event.victim_name),
                stats(c.killer_id, 1, 0, 0),
                stats(event.victim_id, 0, 1, 0),
                [op |-> "rivalry",
                 edge |-> <<event.server_id, c.killer_id,
                            event.victim_id, event.weapon>>],
                [op |-> "nemesis", player_id |-> c.killer_id],
                [op |-> "nemesis", player_id |-> event.victim_id],
                [op |-> "kill_doc",
                 doc |-> [server_id |-> event.server_id,
                          killer_id |-> c.killer_id,
                          killer_name |-> event.killer_name,
                          victim_id |-> event.victim_id,
                          victim_name |-> event.victim_name,
                          weapon |-> event.weapon,
                          distance |-> event.distance,
                          timestamp |-> event.timestamp,
                          is_suicide |-> c.is_suicide]] >>

\* a _process_kill_event that would return True before it inserts the
\* document of a kill
ProcessKillEventBeforeInsert(d, event, done) ==
    LET c == SuicideCheck(event)
        accepted == /\ event.server_id # ""
                    /\ event.victim_id # ""
                    /\ (c.is_suicide \/ c.killer_id # "")
        ops == IF ~accepted THEN <<>>
               ELSE IF c.is_suicide THEN Operations(event)
               ELSE SubSeq(Operations(event), 1, Len(Operations(event)) - 1)
        after[n \in 0..Len(ops)] ==
            IF n = 0 THEN d ELSE Perform(after[n - 1], ops[n])
    IN  [db |-> after[IF done < Len(ops) THEN done ELSE Len(ops)],
         accepted |-> accepted,
         success |-> accepted /\ done >= Len(ops)]

\* a _process_kill_event that would look at victim_id only after it has
\* applied a suicide
ProcessKillEventChecksVictimLate(d, event, done) ==
    LET c == SuicideCheck(event)
        accepted == /\ event.server_id # ""
                    /\ \/ c.is_suicide
                       \/ event.victim_id # "" /\ c.killer_id # ""
        ops == IF accepted THEN Operations(event) ELSE <<>>
        after[n \in 0..Len(ops)] ==
            IF n = 0 THEN d ELSE Perform(after[n - 1], ops[n])
    IN  [db |-> after[IF done < Len(ops) THEN done ELSE Len(ops)],
         accepted |-> accepted,
         success |-> accepted /\ done >= Len(ops)]

\* _process_kill_event on database d when the first `done' persistence
\* operations work and the next one, if there is one, raises.  It returns
\* False for an event without server_id, without victim_id, or without
\* killer_id when it is no suicide, and applies every other event: the
\* database it leaves, whether it went on to apply the event, and the
\* value it returns
process_kill_event(d, event, done) ==
    LET c == SuicideCheck(event)
        accepted == /\ event.server_id # ""
                    /\ event.victim_id # ""
                    /\ (c.is_suicide \/ c.killer_id # "")
        ops == IF accepted THEN Operations(event) ELSE <<>>
        after[n \in 0..Len(ops)] ==
            IF n = 0 THEN d ELSE Perform(after[n - 1], ops[n])
    IN  [db |-> after[IF done < Len(ops) THEN done ELSE Len(ops)],
         accepted |-> accepted,
         success |-> accepted /\ done >= Len(ops)]

\* the parser returned the events of a file of the server the run is at:
\* the servers are gone through in the order of their configurations, and
\* the database is the one the earlier files left
FileBegin ==
    /\ batch.status \in {"idle", "done"}
    /\ batch.files_processed < batch.max_files
    /\ \E cfgs \in ConfigLists, n \in 0..(MaxFileEvents - batch.handled) :
          /\ batch.files_processed < Len(cfgs)
          /\ batch' = [batch EXCEPT !.status = "events",
                                    !.srv = cfgs[batch.files_processed + 1],
                                    !.n = n, !.i = 1,
                                    !.processed_count = 0, !.errors = 0]
    /\ UNCHANGED <<now, store, call, assets, db, is_processing, processing_lock,
                   last_processed, pc, frame, cycle, last_tick, used,
                   sftp_managers, log>>

\* a loop over the events that would end at the first event whose
\* processing fails
EventStepStopsAtFailure ==
    /\ batch.status = "events"
    /\ batch.i <= batch.n
    /\ \E event \in {e \in NormalizedEvents : e.server_id = batch.srv},
          raised \in BOOLEAN :
       \E applied \in {~raised /\ categorize_event(event) \in {"kill", "suicide"}} :
       \E done \in IF applied THEN 0..Len(Operations(event)) ELSE {0} :
       \E r \in {process_kill_event(db, event, done)} :
       \E failed \in {applied /\ r.accepted /\ ~r.success} :
          /\ db' = IF applied THEN r.db ELSE db
          /\ batch' = [batch EXCEPT
                          !.i = IF failed THEN batch.n + 1 ELSE @ + 1,
                          !.errors = IF raised THEN @ + 1 ELSE @,
                          !.processed_count = IF applied /\ r.success THEN @ + 1 ELSE @,
                          !.last = [event |-> event,
                                    done |-> IF applied /\ r.accepted THEN done ELSE 0,
                                    outcome |->
                                        IF raised THEN "error"
                                        ELSE IF ~applied THEN "unknown"
                                        ELSE IF r.success THEN "processed"
                                        ELSE IF r.accepted THEN "failed"
                                        ELSE "dropped"]]
    /\ UNCHANGED <<now, store, call, assets, is_processing, processing_lock,
                   last_processed, pc, frame, cycle, last_tick, used,
                   sftp_managers, log>>

\* one round of the loop over the events: the event is normalized and
\* categorized, which may raise; a kill or a suicide is handed to
\* _process_kill_event and counted when that returns True
EventStep ==
    /\ batch.status = "events"
    /\ batch.i <= batch.n
    /\ \E event \in {e \in NormalizedEvents : e.server_id = batch.srv},
          raised \in BOOLEAN :
       \E applied \in {~raised /\ categorize_event(event) \in {"kill", "suicide"}} :
       \E done \in IF applied THEN 0..Len(Operations(event)) ELSE {0} :
       \E r \in {process_kill_event(db, event, done)} :
          /\ db' = IF applied THEN r.db ELSE db
          /\ batch' = [batch EXCEPT
                          !.i = @ + 1,
                          !.errors = IF raised THEN @ + 1 ELSE @,
                          !.processed_count = IF applied /\ r.success THEN @ + 1 ELSE @,
                          !.last = [event |-> event,
                                    done |-> IF applied /\ r.accepted THEN done ELSE 0,
                                    outcome |->
                                        IF raised THEN "error"
                                        ELSE IF ~applied THEN "unknown"
                                        ELSE IF r.success THEN "processed"
                                        ELSE IF r.accepted THEN "failed"
                                        ELSE "dropped"]]
    /\ UNCHANGED <<now, store, call, assets, is_processing, processing_lock,
                   last_processed, pc, frame, cycle, last_tick, used,
                   sftp_managers, log>>

\* the loop over the events is over: the file is counted
FileEnd ==
    /\ batch.status = "events"
    /\ batch.i > batch.n
    /\ batch' = [batch EXCEPT !.status = "done",
                              !.handled = @ + batch.n,
                              !.events_processed = @ + batch.processed_count,
                              !.files_processed = @ + 1]
    /\ UNCHANGED <<now, store, call, assets, db, is_processing, processing_lock,
                   last_processed, pc, frame, cycle, last_tick, used,
                   sftp_managers, log>>

(***************************************************************************)
(* The on-demand entry points, run by a command task t                     *)
(***************************************************************************)


\* a lock that would let everybody in
LockAlwaysFree == TRUE

\* the lock is free and nobody waits for it
LockFree == processing_lock = NoTask /\ \A u \in Tasks : pc[u] # "c_wait"

\* what a command does when it gets the lock: the historical entry points
\* set the flag, process_csv_command does not
EnterLocked(t, kind) ==
    /\ processing_lock' = t
    /\ is_processing' = IF kind = "process_csv" THEN is_processing ELSE TRUE

\* A command arrives: process_csv_command (amount: 48 or 200 hours), or
\* run_historical_parse / run_historical_parse_with_config (amount: 30 days
\* by default, 7 days in run_historical_parse.py, or 6 days).
\* Up to the lookup of the configuration it changes nothing; without a
\* configuration it returns, else the cursor is set to the start of the
\* lookback window and the lock is taken or waited for.
CmdStart(t) ==
    /\ pc[t] = "idle"
    /\ used.commands[t] < MaxCommands
    /\ used' = [used EXCEPT !.commands[t] = @ + 1]
    /\ \E kind \in {"process_csv", "historical", "historical_cfg"}, srv \in Servers :
       \E amount \in IF kind = "process_csv" THEN {48, 200} ELSE {6, 7, 30} :
       \E found \in IF kind = "historical_cfg" THEN {TRUE} ELSE BOOLEAN :
           IF ~found
           THEN UNCHANGED <<pc, frame, last_processed, processing_lock, is_processing>>
           ELSE LET window == IF kind = "process_csv"
                              THEN amount * SecondsPerHour
                              ELSE amount * SecondsPerDay
                    start  == now - window
                    \* the code the command runs once it has its
                    \* configuration: the two historical entry points
                    \* run the same
                    entry  == IF kind = "process_csv" THEN "process_csv"
                              ELSE "historical"
                IN  /\ last_processed' = Put(last_processed, srv, start)
                    /\ frame' = [frame EXCEPT ![t] =
                                    [Frame0 EXCEPT !.kind = entry, !.srv = srv,
                                                   !.amount = amount,
                                                   !.start_date =
                                                       IF kind = "process_csv" THEN NoDate
                                                       ELSE SomeDate(start),
                                                   !.started = now]]
                    /\ IF LockFree
                       THEN /\ EnterLocked(t, entry)
                            /\ pc' = [pc EXCEPT ![t] = "begin"]
                       ELSE /\ pc' = [pc EXCEPT ![t] = "c_wait"]
                            /\ UNCHANGED <<processing_lock, is_processing>>
    /\ UNCHANGED <<now, store, call, assets, db, batch, sftp_managers, log, cycle, last_tick>>

\* a waiting command gets the lock
CmdAcquire(t) ==
    /\ pc[t] = "c_wait"
    /\ processing_lock = NoTask
    /\ EnterLocked(t, frame[t].kind)
    /\ pc' = [pc EXCEPT ![t] = "begin"]
    /\ UNCHANGED <<now, rest, last_processed, frame, cycle, last_tick>>

\* the routine returned to the command: the historical entry points clear
\* the flag and release the lock, process_csv_command sends its reply first
CmdFinish(t) ==
    /\ pc[t] = "ret"
    /\ IF frame[t].kind = "process_csv"
       THEN /\ pc' = [pc EXCEPT ![t] = "c_reply"]
            /\ UNCHANGED <<is_processing, processing_lock, frame>>
       ELSE /\ is_processing' = FALSE
            /\ processing_lock' = NoTask
            /\ frame' = [frame EXCEPT ![t] = Frame0]
            /\ pc' = [pc EXCEPT ![t] = "idle"]
    /\ UNCHANGED <<now, rest, last_processed, cycle, last_tick>>

\* process_csv_command sent its reply and releases the lock
CmdReply(t) ==
    /\ pc[t] = "c_reply"
    /\ processing_lock' = NoTask
    /\ frame' = [frame EXCEPT ![t] = Frame0]
    /\ pc' = [pc EXCEPT ![t] = "idle"]
    /\ UNCHANGED <<now, rest, is_processing, last_processed, cycle, last_tick>>

\* task t is inside _process_server_csv_files, suspended or between files
InRoutine(t) == pc[t] \in {"discover", "file", "apply"}

\* the routine of task t has selected its files
HasSelected(t) == pc[t] \in {"file", "apply", "ret"} /\ frame[t].i >= 1

(***************************************************************************)
(* Specification                                                           *)
(***************************************************************************)
Routine(t) ==
    \/ RoutineBegin(t)
    \/ RoutineError(t)
    \/ RoutineDiscover(t)
    \/ RoutineFile(t)
    \/ RoutineApply(t)
    \/ RoutineFileError(t)
    \/ RoutineDone(t)

\* the command task that runs next to the scheduled task
RunTask == "cmd1"

\* the server a single command task works on
RunServer == "1"



Scheduled ==
    \/ TickSkip
    \/ TickMemorySkip
    \/ TickStart
    \/ SchedConfigs
    \/ SchedNext
    \/ SchedAfterServer
    \/ SchedSleep
    \/ Routine(SCHED)

\* the scheduled task and one command task, the clock standing still
Next ==
    \/ Scheduled
    \/ Routine(RunTask)
    \/ CmdStart(RunTask) /\ frame'[RunTask].srv \in {RunServer, ""}
                         /\ frame'[RunTask].amount \in {0, 48, 30}
    \/ CmdFinish(RunTask)
    \/ CmdReply(RunTask)

Spec == Init /\ [][Next]_vars

\* the command tasks among themselves, the clock standing still
NextCmds ==
    \/ \E t \in Commands : Routine(t)
    \/ \E t \in Commands :
          /\ CmdStart(t) \/ CmdAcquire(t) \/ CmdFinish(t) \/ CmdReply(t)
          /\ frame'[t].amount \in {0, 48, 30}

SpecCmds == Init /\ [][NextCmds]_vars

\* the scheduled task alone, with the clock: no tick finds the flag set
NextCycle ==
    \/ ClockTick
    \/ TickMemorySkip
    \/ TickStart
    \/ SchedConfigs
    \/ SchedNext
    \/ SchedTimeout
    \/ SchedAfterServer
    \/ SchedSleep
    \/ Routine(SCHED)

SpecCycle == InitCycle /\ [][NextCycle]_vars

\* runs of the routine started by one command task, one after the other,
\* over every world, for server 1 and for server 3, the clock moving once;
\* the lookbacks other than the default ones are tried on server 1 with an
\* empty remote store
NextRun ==
    \/ ClockTick /\ now' <= Now0 + ClockStep
    \/ /\ CmdStart(RunTask)
       /\ frame'[RunTask].srv \in {RunServer, "3", ""}
       /\ frame'[RunTask].amount \notin {0, 48, 30}
             => (frame'[RunTask].srv = RunServer /\ store[RunServer] = {})
    \/ Routine(RunTask)
    \/ CmdFinish(RunTask)
    \/ CmdReply(RunTask)

SpecRun == InitRun /\ [][NextRun]_vars

\* the events of one file, one after the other
NextEvents ==
    \/ FileBegin
    \/ EventStep
    \/ FileEnd

SpecEvents == Init /\ [][NextEvents]_vars

\* the events of a file of each server, one file after the other
SpecFiles == InitFiles /\ [][NextEvents]_vars

(***************************************************************************)
(* Helper functions called on inputs of their own                          *)
(***************************************************************************)
\* the rotated uuids of one server the identity test goes through
tot_uuids ==
    << <<"1", "b", "1", "a", "b", "5", "7", "e", "-", "8", "7", "4",
          "9", "-", "4", "a", "4", "0", "-", "b", "7", "a", "1", "-",
          "b", "1", "0", "7", "3", "a", "5", "f", "2", "4", "b", "3">>,
       <<"1", "0", "5", "6", "8", "5", "2", "d", "-", "0", "5", "f",
          "9", "-", "4", "e", "5", "e", "-", "9", "e", "8", "8", "-",
          "0", "1", "2", "c", "2", "8", "7", "0", "c", "0", "4", "2">>,
       <<"a", "b", "c", "1", "2", "3", "d", "e", "-", "f", "4", "5",
          "6", "-", "7", "8", "9", "0", "-", "a", "b", "c", "d", "-",
          "e", "f", "1", "2", "3", "4", "5", "6", "7", "8", "9", "0">>,
       <<"x", "y", "z", "9", "8", "7", "a", "b", "-", "c", "d", "e",
          "f", "-", "1", "2", "3", "4", "-", "5", "6", "7", "8", "-",
          "9", "0", "a", "b", "c", "d", "e", "f", "1", "2", "3", "4">> >>

\* one round of the loop of the identity test: identify_server is called
\* with the next uuid and the same hostname, server name and guild, none of
\* which identify_server reads, and the numeric id it returns is printed
IdentityTestStep ==
    /\ call.helper \in {"none", "identity_test"}
    /\ Len(call.numeric_ids) < Len(tot_uuids)
    /\ call' = [call EXCEPT !.helper = "identity_test", !.numeric_ids =
                    Append(@, identify_server(KNOWN_SERVERS, tot_uuids[Len(@) + 1]))]
    /\ UNCHANGED <<now, store, assets, is_processing, processing_lock,
                   last_processed, pc, frame, cycle, last_tick, used,
                   sftp_managers, log, db, batch>>



\* the date in the name of a file is parsed as get_file_date parses it and,
\* when that works, written back in the format of last_time_str
FileDateCall ==
    /\ call.helper = "none"
    \* file names the primary pattern matches: four digits and five pairs of
    \* digits with their separators, then '.csv'; the digits need not be a
    \* date
    /\ \E file \in
          { Pad4(y) \o <<".">> \o Pad2(m) \o <<".">> \o Pad2(d) \o <<"-">>
                \o Pad2(H) \o <<".">> \o Pad2(M) \o <<".">> \o Pad2(S) \o CsvExt :
            y \in {0, 1970, 2025}, m \in {1, 2, 12, 13}, d \in {0, 1, 29, 31},
            H \in {0, 23, 24}, M \in {0, 59, 60}, S \in {0, 59, 60} } :
       \E date \in {Strptime(BeforeCsv(Basename(file)))} :
       \E text \in {IF date.ok THEN Strftime(date.dt) ELSE <<>>} :
          call' = [call EXCEPT !.helper = "get_file_date", !.file_date =
                      [file |-> file, date |-> date, text |-> text]]
    /\ UNCHANGED <<now, store, assets, is_processing, processing_lock,
                   last_processed, pc, frame, cycle, last_tick, used,
                   sftp_managers, log, db, batch>>

\* identify_server is called with a server id, after load_server_mappings
\* has filled KNOWN_SERVERS from the stored servers or left it empty
IdentifyCall ==
    /\ call.helper = "none"
    /\ \E known \in { KNOWN_SERVERS,
                      (<<"7">> :> <<"9", "9", "9", "9">>),
                      (<<"a", "1", "2", "3", "4", "b", "5", "6", "7", "8", "9">> :> <<"4", "2">>) },
          server_id \in { <<>>, <<"7">>, <<"1", "2", "3", "4", "5">>, <<"a", "b", "c">>,
                          <<"a", "b", "1", "2">>, <<"a", "1", "2", "b", "3", "4", "5", "6">>,
                          <<"a", "1", "2", "3", "4", "b", "5", "6", "7", "8", "9">>,
                          <<"x", "1", "2", "3", "4", "5", "6", "y", "7", "8", "9", "0">>,
                          tot_uuids[3] } :
          call' = [call EXCEPT !.helper = "identify_server", !.identify =
                      [called |-> TRUE, known |-> known, server_id |-> server_id,
                       result |-> identify_server(known, server_id)]]
    /\ UNCHANGED <<now, store, assets, is_processing, processing_lock,
                   last_processed, pc, frame, cycle, last_tick, used,
                   sftp_managers, log, db, batch>>

(***************************************************************************)
(* Stored server configurations and their lookup                           *)
(***************************************************************************)
\* a server id as the code compares it: the text without surrounding
\* blanks, empty for an id that is not usable
safe_standardize_server_id(raw) ==
    LET inked == {i \in 1..Len(raw) : raw[i] # " "}
    IN  IF inked = {} THEN <<>>
        ELSE SubSeq(raw, Least(inked), CHOOSE i \in inked : \A j \in inked : j <= i)

\* states of the stored configurations: the documents of the collections
\* servers and game_servers, and the servers embedded in the guild
\* documents, guild after guild, each with the guild_id of its guild. A
\* document holds its server_id, its original_server_id (empty: absent),
\* the sftp keys present in it, its sftp_host and its sftp_port (empty:
\* absent)
ConfigDbs ==
    LET sftp == {"sftp_host", "sftp_username", "sftp_password"}
        D(server_id, original_server_id, keys, sftp_host, sftp_port, guild_id) ==
            [server_id |-> server_id, original_server_id |-> original_server_id,
             keys |-> keys, sftp_host |-> sftp_host, sftp_port |-> sftp_port,
             guild_id |-> guild_id]
    IN  { [servers |-> <<>>, game_servers |-> <<>>, guilds |-> <<>>],
          [servers |-> <<>>,
           game_servers |-> << D(<<"7">>, <<>>, sftp, <<"h", "1">>, <<>>, <<>>),
                               D(<<"u", "1">>, <<"7">>, sftp, <<"h", "2">>, <<>>, <<>>) >>,
           guilds |-> <<>>],
          [servers |-> << D(<<"7">>, <<>>, sftp, <<"h", "1">>, <<"2", "2">>, <<>>) >>,
           game_servers |-> <<>>,
           guilds |-> << D(<<"u", "1">>, <<"7">>, sftp, <<"h", "2">>, <<>>, <<"g">>) >>],
          [servers |-> << D(<<"a", "b", "1", "2", "3", "4">>, <<>>, sftp,
                            <<"h", "1", ":", "2", "2">>, <<>>, <<>>) >>,
           game_servers |-> <<>>, guilds |-> <<>>],
          [servers |-> << D(<<"7">>, <<>>, sftp, <<"h", "1">>, <<>>, <<>>),
                          D(<<"8">>, <<>>, sftp \ {"sftp_password"}, <<"h", "1">>, <<>>, <<>>) >>,
           game_servers |-> << D(<<"7">>, <<>>, sftp, <<"h", "2">>, <<>>, <<>>),
                               D(<<"8">>, <<>>, sftp, <<"h", "2">>, <<>>, <<>>),
                               D(<<"9">>, <<>>, sftp, <<"h", "2">>, <<"x">>, <<>>) >>,
           guilds |-> << D(<<"7">>, <<>>, sftp, <<"h", "3">>, <<>>, <<"g">>),
                         D(<<"9">>, <<>>, sftp, <<"h", "3">>, <<>>, <<"g">>),
                         D(<<"5">>, <<>>, {"sftp_host"}, <<"h", "3">>, <<>>, <<"g">>),
                         D(<<" ", "5">>, <<>>, sftp, <<"h", "4">>, <<>>, <<"k">>),
                         D(<<" ">>, <<>>, sftp, <<"h", "4">>, <<>>, <<"k">>) >>],
          [servers |-> << D(<<"7">>, <<>>, sftp, <<"h", "1">>, <<>>, <<>>),
                          D(<<"6">>, <<>>, sftp, <<"h", "1">>, <<>>, <<>>),
                          D(<<"7">>, <<"4", "2">>, sftp, <<"h", "2">>, <<>>, <<>>) >>,
           game_servers |-> <<>>, guilds |-> <<>>] }

\* the result of resolve_server_id when nothing is found: {}
NotResolved ==
    [found |-> FALSE, server_id |-> <<>>, original_server_id |-> <<>>,
     config |-> <<>>, collection |-> ""]

\* a resolution that tries the server_id before the original_server_id
resolve_server_id_direct_first(d, server_id, guild_id, fails) ==
    LET guild_servers ==
            IF guild_id = <<>> THEN <<>>
            ELSE SelectSeq(d.guilds, LAMBDA g : g.guild_id = guild_id)
        Hit(collection, name, field) ==
            LET at == {k \in 1..Len(collection) : collection[k][field] = server_id}
            IN  IF at = {} THEN <<>>
                ELSE <<[collection |-> name, server |-> collection[Least(at)]]>>
        Search(field) ==
            Hit(d.game_servers, "game_servers", field)
               \o Hit(d.servers, "servers", field)
               \o Hit(guild_servers, "guilds.servers", field)
        by_original ==
            IF IsDigits(server_id) /\ "original" \notin fails
            THEN Search("original_server_id") ELSE <<>>
        by_server_id ==
            IF "direct" \notin fails THEN Search("server_id") ELSE <<>>
    IN  IF server_id = <<>> THEN NotResolved
        ELSE IF by_server_id # <<>>
        THEN [found |-> TRUE, server_id |-> server_id,
              original_server_id |-> by_server_id[1].server.original_server_id,
              config |-> <<by_server_id[1].server>>,
              collection |-> by_server_id[1].collection]
        ELSE IF by_original # <<>>
        THEN [found |-> TRUE, server_id |-> by_original[1].server.server_id,
              original_server_id |-> server_id,
              config |-> <<by_original[1].server>>,
              collection |-> by_original[1].collection]
        ELSE NotResolved

\* resolve_server_id(db, server_id, guild_id) on the stored configurations
\* d: a purely numeric id is first looked for in the original_server_id of
\* game_servers, servers and the servers of the guild, then every id in
\* their server_id. fails holds the searches the database raised in: each
\* is logged and yields nothing
resolve_server_id(d, server_id, guild_id, fails) ==
    LET guild_servers ==
            IF guild_id = <<>> THEN <<>>
            ELSE SelectSeq(d.guilds, LAMBDA g : g.guild_id = guild_id)
        Hit(collection, name, field) ==
            LET at == {k \in 1..Len(collection) : collection[k][field] = server_id}
            IN  IF at = {} THEN <<>>
                ELSE <<[collection |-> name, server |-> collection[Least(at)]]>>
        Search(field) ==
            Hit(d.game_servers, "game_servers", field)
               \o Hit(d.servers, "servers", field)
               \o Hit(guild_servers, "guilds.servers", field)
        by_original ==
            IF IsDigits(server_id) /\ "original" \notin fails
            THEN Search("original_server_id") ELSE <<>>
        by_server_id ==
            IF "direct" \notin fails THEN Search("server_id") ELSE <<>>
    IN  IF server_id = <<>> THEN NotResolved
        ELSE IF by_original # <<>>
        THEN [found |-> TRUE, server_id |-> by_original[1].server.server_id,
              original_server_id |-> server_id,
              config |-> <<by_original[1].server>>,
              collection |-> by_original[1].collection]
        ELSE IF by_server_id # <<>>
        THEN [found |-> TRUE, server_id |-> server_id,
              original_server_id |-> by_server_id[1].server.original_server_id,
              config |-> <<by_server_id[1].server>>,
              collection |-> by_server_id[1].collection]
        ELSE NotResolved

\* _process_server_config: the entry of a server with all three sftp keys
\* is written to server_configs under its standardized id (a dict: a key
\* already there keeps its place). The port is the one after the ':' of
\* sftp_host when that is a number, else sftp_port, else 22; int(sftp_port)
\* raising is caught and leaves server_configs as it was
process_server_config(server, server_id, raw_server_id, server_configs) ==
    LET colon    == {i \in 1..Len(server.sftp_host) : server.sftp_host[i] = ":"}
        after    == IF colon = {} THEN <<>>
                    ELSE BeforeColon(SubSeq(server.sftp_host, Least(colon) + 1,
                                            Len(server.sftp_host)))
        sftp_port == IF after # <<>> /\ IsDigits(after) THEN after
                     ELSE server.sftp_port
        stored   == IF server.original_server_id # <<>>
                    THEN server.original_server_id ELSE raw_server_id
        identity == identify_server(KNOWN_SERVERS, server_id)
        entry    == [server_id |-> server_id,
                     hostname |-> BeforeColon(server.sftp_host),
                     port |-> IF sftp_port = <<>> THEN 22 ELSE NumVal(sftp_port),
                     original_server_id |->
                         IF identity.known \/ identity.id # stored
                         THEN identity.id ELSE stored,
                     guild_id |-> server.guild_id]
        at       == {k \in 1..Len(server_configs) :
                        server_configs[k].server_id = server_id}
    IN  IF ~({"sftp_host", "sftp_username", "sftp_password"} \subseteq server.keys)
        THEN server_configs
        ELSE IF ~IsDigits(sftp_port) THEN server_configs
        ELSE IF at = {} THEN Append(server_configs, entry)
        ELSE [server_configs EXCEPT ![Least(at)] = entry]

\* the loops of _get_server_configs over the documents found, from
\* document i on: found[i] is a document with the source it comes from
RECURSIVE ScanServerConfigs(_, _, _, _)
ScanServerConfigs(found, i, processed_servers, server_configs) ==
    IF i > Len(found) THEN server_configs
    ELSE LET server    == found[i].server
             server_id == safe_standardize_server_id(server.server_id)
         IN  IF \/ server_id = <<>>
                \/ found[i].source # "servers" /\ server_id \in processed_servers
                \/ /\ found[i].source = "guilds"
                   /\ ~({"sftp_host", "sftp_username", "sftp_password"}
                           \subseteq server.keys)
             THEN ScanServerConfigs(found, i + 1, processed_servers, server_configs)
             ELSE ScanServerConfigs(found, i + 1, processed_servers \cup {server_id},
                                    process_server_config(server, server_id,
                                                          server.server_id,
                                                          server_configs))

\* _get_server_configs on the stored configurations d: the servers with all
\* three sftp keys of the collection servers, then those of game_servers,
\* then the servers of the guilds. The database serves the first reads of
\* the three queries and raises in the next: the error is logged and what
\* was collected so far is returned
get_server_configs(d, reads) ==
    LET Complete(collection) ==
            SelectSeq(collection,
                      LAMBDA server : {"sftp_host", "sftp_username", "sftp_password"}
                                          \subseteq server.keys)
        From(source, collection) ==
            [k \in 1..Len(collection) |-> [source |-> source, server |-> collection[k]]]
    IN  ScanServerConfigs(
            (IF reads >= 1 THEN From("servers", Complete(d.servers)) ELSE <<>>)
               \o (IF reads >= 2 THEN From("game_servers", Complete(d.game_servers))
                   ELSE <<>>)
               \o (IF reads >= 3 THEN From("guilds", d.guilds) ELSE <<>>),
            1, {}, <<>>)

\* run_historical_parse looks its server up: the resolution is used when it
\* found a configuration; otherwise the server is looked for among the
\* configurations of _get_server_configs, by its standardized id, by the
\* id KNOWN_SERVERS maps to it, by original_server_id and by numeric value,
\* and without a match the run returns (0, 0)
HistoricalLookupCall ==
    /\ call.helper = "none"
    /\ \E d \in ConfigDbs, guild_id \in {<<>>, <<"g">>},
          fails \in {{}, {"original"}, {"direct"}}, reads \in {0, 3},
          raw_input_id \in { <<>>, <<"7">>, <<"0", "7">>, <<"1", "2", "3", "4">>,
                             <<"u", "1">>, <<"9">>, <<"z">> } :
          LET server_resolution == resolve_server_id(d, raw_input_id, guild_id, fails)
              server_configs    == get_server_configs(d, reads)
              configured        == {server_configs[k].server_id :
                                       k \in 1..Len(server_configs)}
              standard          == safe_standardize_server_id(raw_input_id)
              numeric           == standard # <<>> /\ IsDigits(standard)
              uuids             == {u \in DOMAIN KNOWN_SERVERS :
                                       numeric /\ KNOWN_SERVERS[u] = standard}
              server_id         == IF uuids # {} THEN CHOOSE u \in uuids : TRUE
                                   ELSE standard
              by_original       == {k \in 1..Len(server_configs) :
                                       /\ numeric
                                       /\ server_configs[k].original_server_id = standard}
              second            == IF server_id \in configured \/ by_original = {}
                                   THEN server_id
                                   ELSE server_configs[Least(by_original)].server_id
              by_value          == {k \in 1..Len(server_configs) :
                                       /\ second # <<>> /\ IsDigits(second)
                                       /\ IsDigits(server_configs[k].server_id)
                                       /\ NumVal(server_configs[k].server_id)
                                             = NumVal(second)}
              third             == IF second \in configured \/ by_value = {}
                                   THEN second
                                   ELSE server_configs[Least(by_value)].server_id
          IN  call' = [call EXCEPT !.helper = "run_historical_parse", !.historical =
                         [called |-> TRUE, d |-> d, server_id |-> raw_input_id,
                          guild_id |-> guild_id, fails |-> fails, reads |-> reads,
                          server_resolution |-> server_resolution,
                          server_configs |-> IF server_resolution.found THEN <<>>
                                             ELSE server_configs,
                          outcome |-> IF server_resolution.found THEN "resolved"
                                      ELSE IF third \in configured THEN "configured"
                                      ELSE "not_found",
                          target |-> IF server_resolution.found
                                     THEN server_resolution.server_id
                                     ELSE IF third \in configured THEN third
                                     ELSE <<>>]]
    /\ UNCHANGED <<now, store, assets, is_processing, processing_lock,
                   last_processed, pc, frame, cycle, last_tick, used,
                   sftp_managers, log, db, batch>>

\* _get_server_configs is called at the start of a cycle
ServerConfigsCall ==
    /\ call.helper = "none"
    /\ \E d \in ConfigDbs, reads \in 0..3 :
          call' = [call EXCEPT !.helper = "_get_server_configs", !.configs =
                      [called |-> TRUE, d |-> d, reads |-> reads,
                       server_configs |-> get_server_configs(d, reads)]]
    /\ UNCHANGED <<now, store, assets, is_processing, processing_lock,
                   last_processed, pc, frame, cycle, last_tick, used,
                   sftp_managers, log, db, batch>>

(***************************************************************************)
(* The parsing routines of the repository's scripts                        *)
(***************************************************************************)
\* process_sample_csv (fix_csv_processing.py): the delimiter detected for
\* the content of a file; "" when the file is skipped as empty
process_sample_csv_delimiter(content) ==
    LET semicolon_count == Cardinality({i \in 1..Len(content) : content[i] = ";"})
        comma_count     == Cardinality({i \in 1..Len(content) : content[i] = ","})
    IN  IF content = <<>> THEN ""
        ELSE IF semicolon_count >= comma_count THEN ";" ELSE ","

\* test_csv_processing (test_csv_batch_processing.py): the delimiter
\* detected; "" when the file is skipped as holding only whitespace
test_csv_processing_delimiter(content) ==
    LET semicolons == Cardinality({i \in 1..Len(content) : content[i] = ";"})
        commas     == Cardinality({i \in 1..Len(content) : content[i] = ","})
    IN  IF \A i \in 1..Len(content) : content[i] \in {" ", "\n"} THEN ""
        ELSE IF semicolons > commas THEN ";" ELSE ","

\* analyze_csv_files (csv_deep_diagnostic.py): the delimiter detected; ""
\* when the file is skipped as holding only whitespace
analyze_csv_files_delimiter(content) ==
    LET semicolon_count == Cardinality({i \in 1..Len(content) : content[i] = ";"})
        comma_count     == Cardinality({i \in 1..Len(content) : content[i] = ","})
    IN  IF \A i \in 1..Len(content) : content[i] \in {" ", "\n"} THEN ""
        ELSE IF semicolon_count >= comma_count THEN ";" ELSE ","

\* the three routines detect the delimiter of the same content
DelimiterCall ==
    /\ call.helper = "none"
    /\ \E content \in { <<>>, <<" ">>, <<"a">>, <<"a", ";", "b">>, <<"a", ",", "b">>,
                        <<"a", ";", "b", ",", "c">>, <<"a", ",", "b", ";", "c">>,
                        <<"a", ";", "b", ",", "c", ";", "d">>,
                        <<"a", ",", "b", ";", "c", ",", "d">>,
                        <<"a", ";", "b", "\n", "c", ",", "d", "\n">>,
                        <<"a", ",", "b", "\n", "c", ",", "d", ";", "e", ";", "f", ";">> } :
          call' = [call EXCEPT !.helper = "delimiter", !.delimiter =
                      [called |-> TRUE, content |-> content,
                       process_sample_csv |-> process_sample_csv_delimiter(content),
                       test_csv_processing |-> test_csv_processing_delimiter(content),
                       analyze_csv_files |-> analyze_csv_files_delimiter(content)]]
    /\ UNCHANGED <<now, store, assets, is_processing, processing_lock,
                   last_processed, pc, frame, cycle, last_tick, used,
                   sftp_managers, log, db, batch>>

\* str.strip(): the text without the blanks at its ends
Strip(s) ==
    LET inked == {i \in 1..Len(s) : s[i] # " "}
    IN  IF inked = {} THEN <<>>
        ELSE SubSeq(s, Least(inked), CHOOSE i \in inked : \A j \in inked : j <= i)

\* the timestamp formats of the rows, in the order they are tried
TIMESTAMP_FORMATS ==
    << <<".", ".", "-", ".", ".">>,    \* %Y.%m.%d-%H.%M.%S
       <<".", ".", "-", ":", ":">>,    \* %Y.%m.%d-%H:%M:%S
       <<"-", "-", "-", ".", ".">>,    \* %Y-%m-%d-%H.%M.%S
       <<"-", "-", " ", ":", ":">>,    \* %Y-%m-%d %H:%M:%S
       <<".", ".", " ", ":", ":">> >>  \* %Y.%m.%d %H:%M:%S

\* events that would be collected only up to the first row that is skipped
test_csv_processing_events_until_skip(rows) ==
    LET Parsing(row) ==
            {k \in 1..Len(TIMESTAMP_FORMATS) :
                StrptimeFmt(TIMESTAMP_FORMATS[k], Strip(row[1])).ok}
        skipped == {i \in 1..Len(rows) : Len(rows[i]) < 6 \/ Parsing(rows[i]) = {}}
        kept    == IF skipped = {} THEN rows ELSE SubSeq(rows, 1, Least(skipped) - 1)
    IN  [i \in 1..Len(kept) |->
            [timestamp |-> StrptimeFmt(TIMESTAMP_FORMATS[Least(Parsing(kept[i]))],
                                       Strip(kept[i][1])).dt,
             killer_name |-> Strip(kept[i][2]), killer_id |-> Strip(kept[i][3]),
             victim_name |-> Strip(kept[i][4]), victim_id |-> Strip(kept[i][5]),
             weapon |-> Strip(kept[i][6]),
             format_used |-> Least(Parsing(kept[i]))]]

\* test_csv_processing (test_csv_batch_processing.py): the events collected
\* from the rows of a file. A row with fewer than 6 fields, with an empty
\* timestamp or with a timestamp no format parses is passed over; the
\* first format that parses gives the timestamp, and an empty field reads
\* "Unknown"
test_csv_processing_events(rows) ==
    LET Parsing(row) ==
            {k \in 1..Len(TIMESTAMP_FORMATS) :
                StrptimeFmt(TIMESTAMP_FORMATS[k], Strip(row[1])).ok}
        Field(row, n) == IF row[n] = <<>> THEN <<"U", "n", "k", "n", "o", "w", "n">>
                         ELSE Strip(row[n])
        kept == SelectSeq(rows, LAMBDA row : /\ Len(row) >= 6
                                             /\ Strip(row[1]) # <<>>
                                             /\ Parsing(row) # {})
    IN  [i \in 1..Len(kept) |->
            [timestamp |-> StrptimeFmt(TIMESTAMP_FORMATS[Least(Parsing(kept[i]))],
                                       Strip(kept[i][1])).dt,
             killer_name |-> Field(kept[i], 2), killer_id |-> Field(kept[i], 3),
             victim_name |-> Field(kept[i], 4), victim_id |-> Field(kept[i], 5),
             weapon |-> Field(kept[i], 6),
             format_used |-> Least(Parsing(kept[i]))]]

\* the rows of a file are parsed: the reader hands over the rows of up to
\* two lines, or of three, each a list of fields
RowsCall ==
    /\ call.helper = "none"
    /\ \E stamp \in {Strftime(MkDateTime(2025, 5, 3, 12, 34, 56))} :
       \E stamps \in
          {[n \in 1..Len(TIMESTAMP_FORMATS) |->
               [k \in 1..19 |-> CASE k = 5  -> TIMESTAMP_FORMATS[n][1]
                                  [] k = 8  -> TIMESTAMP_FORMATS[n][2]
                                  [] k = 11 -> TIMESTAMP_FORMATS[n][3]
                                  [] k = 14 -> TIMESTAMP_FORMATS[n][4]
                                  [] k = 17 -> TIMESTAMP_FORMATS[n][5]
                                  [] OTHER  -> stamp[k]]]} :
       \E tail \in {<< <<"K">>, <<"1">>, <<"V">>, <<" ", "2">>, <<>> >>} :
       \E lines \in
          { <<stamps[n]>> \o tail : n \in 1..Len(TIMESTAMP_FORMATS) }
             \cup { <<stamps[2]>> \o tail \o << <<"9">> >>,
                    <<stamps[1]>> \o SubSeq(tail, 1, 4),
                    <<>>,
                    << <<>> >> \o tail,
                    << <<" ">> \o stamps[4] \o <<" ">> >> \o tail,
                    << [k \in 1..19 |-> IF k \in {5, 8} THEN "/" ELSE stamp[k]] >> \o tail,
                    << [k \in 1..19 |-> IF k = 6 THEN "1" ELSE IF k = 7 THEN "3"
                                        ELSE stamp[k]] >> \o tail,
                    << SubSeq(stamp, 1, 10) >> \o tail } :
       \E rows \in {<<>>, <<lines>>}
                      \cup {<<lines, other>> :
                               other \in {<<stamps[1]>> \o tail, <<stamps[5]>> \o tail,
                                          <<stamps[3]>> \o SubSeq(tail, 1, 3),
                                          << <<"x">> >> \o tail}}
                      \cup {<<lines, << <<"x">> >> \o tail, <<stamps[4]>> \o tail>>} :
          call' = [call EXCEPT !.helper = "rows", !.rows =
                      [called |-> TRUE, rows |-> rows,
                       events |-> test_csv_processing_events(rows)]]
    /\ UNCHANGED <<now, store, assets, is_processing, processing_lock,
                   last_processed, pc, frame, cycle, last_tick, used,
                   sftp_managers, log, db, batch>>

NextCalls ==
    \/ IdentityTestStep
    \/ FileDateCall
    \/ IdentifyCall
    \/ HistoricalLookupCall
    \/ ServerConfigsCall
    \/ DelimiterCall
    \/ RowsCall

\* the helper functions on their inputs
SpecCalls == Init /\ [][NextCalls]_vars

\* the scheduled task with its timeouts and a historical run of one
\* command task; the clock moves while the first server of a cycle is
\* searched. The event loop runs every task that is ready and every
\* awaited call returns or raises: a task that is not idle moves on to its
\* next position. The fairness conditions name the steps of a task by the
\* change of its position: every step of a task changes its position and
\* no other, and a task that is not idle always has a step
SpecLive ==
    /\ Init
    /\ [][ \/ /\ ClockTick
              /\ pc[SCHED] = "discover" /\ cycle.i = 1 /\ pc[RunTask] = "idle"
              /\ now' <= Now0 + 2 * ClockStep
           \/ Scheduled
           \/ SchedTimeout
           \/ Routine(RunTask)
           \/ /\ CmdStart(RunTask)
              /\ frame'[RunTask].kind \in {"historical", ""}
              /\ frame'[RunTask].srv \in {RunServer, ""}
              /\ frame'[RunTask].amount \in {0, 30}
           \/ CmdFinish(RunTask) ]_vars
    /\ WF_pc(/\ pc[SCHED] # "idle"
             /\ \E p \in {"idle", "begin", "discover", "file", "apply", "ret",
                          "get_configs", "loop", "sleep"} \ {pc[SCHED]} :
                   pc' = [pc EXCEPT ![SCHED] = p])
    /\ WF_pc(/\ pc[RunTask] # "idle"
             /\ \E p \in {"idle", "begin", "discover", "file", "apply", "ret",
                          "c_wait", "c_reply"} \ {pc[RunTask]} :
                   pc' = [pc EXCEPT ![RunTask] = p])

(***************************************************************************)
(* Properties                                                              *)
(***************************************************************************)
\* the timestamp embedded in the name of a file, parsed with the primary
\* format or, failing that, with the first alternative format that fits
EmbeddedStamp(file) ==
    LET m  == date_match(Basename(file))
        ok == {k \in 1..Len(AlternativeFormats) :
                  StrptimeFmt(AlternativeFormats[k], m.text).ok}
    IN  IF m.found /\ ok # {}
        THEN StrptimeFmt(AlternativeFormats[CHOOSE k \in ok : \A j \in ok : k <= j],
                         m.text)
        ELSE [ok |-> FALSE, dt |-> 0]

\* C1: a tick of the scheduled task that finds is_processing set does
\* nothing but return: it starts no cycle, works on no server and leaves
\* the flag and every cursor as they are; hence a cycle only ever starts
\* from the idle task with the flag clear.
C1_SkippedTickChangesNothing ==
    [][ ( /\ pc[SCHED] = "idle"
          /\ is_processing
          /\ (last_tick' # last_tick \/ pc'[SCHED] # pc[SCHED]) )
        => ( /\ last_tick' = "skipped"
             /\ pc'[SCHED] = "idle"
             /\ is_processing' = is_processing
             /\ last_processed' = last_processed
             /\ frame'[SCHED] = frame[SCHED]
             /\ cycle' = cycle ) ]_vars

\* a tick was skipped while an on-demand run holds the flag
C1_Witness ==
    /\ last_tick = "skipped"
    /\ is_processing
    /\ pc[SCHED] = "idle"
    /\ \E t \in Commands : InRoutine(t)

\* C2: the scheduled cycle and an on-demand run are never both inside
\* _process_server_csv_files for the same server.
C2_ScheduledAndOnDemandExclusive ==
    \A t \in Commands :
        ~( /\ InRoutine(SCHED)
           /\ InRoutine(t)
           /\ frame[SCHED].srv = frame[t].srv )

\* C3: when the routine returns, the cursor of its server is not below the
\* value it had when the routine was entered.
C3_CursorNeverMovesBack ==
    \A t \in Tasks :
        (pc[t] = "ret" /\ frame[t].cursor_before.set)
        => last_processed[frame[t].srv] >= frame[t].cursor_before.dt

\* C4: when the routine returns, the cursor of its server is not later than
\* the embedded timestamp of the latest file the run parsed and applied, and
\* it is what it was at entry when the run completed no file.
C4_CursorNotPastCompletedFile ==
    \A t \in Tasks :
        pc[t] = "ret" =>
            LET f     == frame[t]
                dated == {x \in f.parsed : EmbeddedStamp(x).ok}
            IN  IF f.parsed = {}
                THEN CursorOf(last_processed, f.srv) = f.cursor_before
                ELSE dated # {} =>
                        \E x \in dated : last_processed[f.srv] <= EmbeddedStamp(x).dt

\* C5: when a search strategy found remote files, every one of them that is
\* newer than the cursor the run started with is among the files the routine
\* has parsed and applied, or at least gone through, when it returns.
C5_DiscoveredNewFilesAreProcessed ==
    \A t \in Tasks :
        ( /\ pc[t] = "ret"
          /\ frame[t].strategy \in {"map", "list", "recursive", "probe"}
          /\ frame[t].cursor_before.set )
        => \A x \in frame[t].remote :
              IsNewFile(x, Strftime(frame[t].cursor_before.dt), now)
              => x \in Range(frame[t].files_to_process)

\* C6: in a run whose search found remote files, no file of the local
\* attached_assets directory is among the files that are filtered and
\* processed.
C6_LocalNeverOverridesRemote ==
    \A t \in Tasks :
        (HasSelected(t) /\ frame[t].remote # {})
        => \A k \in 1..Len(frame[t].csv_files) :
              ~Contains(frame[t].csv_files[k], TxtAttachedAssets)

\* C7: a candidate file with a parseable embedded timestamp is selected
\* exactly if that timestamp is later than the cursor the run started with.
C7_SelectedIffNewerThanCursor ==
    \A t \in Tasks :
        (HasSelected(t) /\ frame[t].cursor_before.set)
        => \A k \in 1..Len(frame[t].csv_files) :
              LET x == frame[t].csv_files[k]
              IN  EmbeddedStamp(x).ok
                  => ( (x \in Range(frame[t].new_files))
                       <=> (EmbeddedStamp(x).dt > frame[t].cursor_before.dt) )

C9_OnDemandRunsExclusive ==
    /\ \A t \in Commands : InRoutine(t) => processing_lock = t
    /\ \A t, u \in Commands : (t # u) => ~(InRoutine(t) /\ InRoutine(u))

\* one on-demand run waits for the lock while another one is inside the
\* routine for the same server
C9_Witness ==
    \E t, u \in Commands :
        /\ InRoutine(t)
        /\ pc[u] = "c_wait"
        /\ frame[t].srv = frame[u].srv

\* C10: last_processed and is_processing are only written by a task that
\* holds processing_lock when it writes: the writing task holds the lock
\* before the step, or takes it in the step and writes only the flag after.
C10_WritesOnlyUnderGuard ==
    [][ (last_processed' # last_processed \/ is_processing' # is_processing)
        => \E t \in Tasks :
              /\ pc'[t] # pc[t]
              /\ \/ processing_lock = t
                 \/ processing_lock' = t /\ last_processed' = last_processed ]_vars

\* C11: a run on a server whose remote store holds no CSV file at all (the
\* canonical directory is reported missing and no strategy finds a file)
\* returns with nothing processed: 0 files, 0 events and no file parsed.
C11_NoRemoteFilesEmptyResult ==
    \A t \in Tasks :
        (pc[t] = "ret" /\ store[frame[t].srv] = {})
        => /\ frame[t].files_processed = 0
           /\ frame[t].events_processed = 0
           /\ frame[t].parsed = {}

\* C12: in a scheduled cycle a server that times out or fails takes only
\* itself out: the step that aborts it leaves the flag set and the list of
\* the cycle as it is, and moves the cycle to the next position (at once
\* after a timeout, through the return and the pause after an error); and
\* the head of the loop, with a server left and the budget not spent,
\* starts exactly that server.
C12_FailureTakesOutOneServer ==
    [][ /\ ( /\ InRoutine(SCHED)
             /\ \E e \in log' \ log : e.what \in {"timeout", "error"} )
           => /\ is_processing'
              /\ cycle'.server_configs = cycle.server_configs
              /\ \/ pc'[SCHED] = "loop" /\ cycle'.i = cycle.i + 1
                 \/ pc'[SCHED] = "ret" /\ cycle'.i = cycle.i
        /\ (pc[SCHED] = "ret" /\ pc'[SCHED] # "ret")
           => pc'[SCHED] = "sleep" /\ cycle' = cycle /\ is_processing'
        /\ (pc[SCHED] = "sleep" /\ pc'[SCHED] # "sleep")
           => /\ pc'[SCHED] = "loop" /\ is_processing'
              /\ cycle' = [cycle EXCEPT !.i = @ + 1]
        /\ ( /\ pc[SCHED] = "loop" /\ pc'[SCHED] # "loop"
             /\ cycle.i <= Len(cycle.server_configs)
             /\ now - cycle.start_time <= CYCLE_BUDGET_SECONDS )
           => /\ pc'[SCHED] = "begin" /\ is_processing'
              /\ frame'[SCHED].srv = cycle.server_configs[cycle.i]
              /\ cycle' = cycle ]_vars

\* the second server of the list is inside the routine in a cycle in which
\* the first one timed out
C12_Witness ==
    /\ InRoutine(SCHED)
    /\ cycle.i = 2
    /\ frame[SCHED].srv = cycle.server_configs[2]
    /\ \E e \in log : /\ e.tick = used.ticks
                       /\ e.srv = cycle.server_configs[1]
                       /\ e.what = "timeout"

\* C13: a server whose processing failed in an earlier scheduled cycle (its
\* run timed out or logged an error, an authentication failure included) is
\* tried again when a later cycle starts it: the routine goes on to connect
\* and to search for files.
C13_FailedServerIsRetried ==
    [][ ( /\ pc[SCHED] = "begin"
          /\ pc'[SCHED] # "begin"
          /\ \E e \in log : /\ e.srv = frame[SCHED].srv
                             /\ e.tick < used.ticks
                             /\ e.what \in {"timeout", "error"} )
        => pc'[SCHED] = "discover" ]_vars

C16_SuicideChangesVictimOnly ==
    [][ ( /\ batch.status = "events"
          /\ batch'.i = batch.i + 1
          /\ batch'.last.outcome = "processed"
          /\ LET e == batch'.last.event
             IN  \/ e.killer_id = e.victim_id
                 \/ e.weapon \in {"suicide_by_relocation", "suicide"}
                 \/ e.killer_name # "" /\ e.killer_name = e.victim_name )
        => LET v   == batch'.last.event.victim_id
               old == IF v \in DOMAIN db.players
                      THEN db.players[v]
                      ELSE [server_id |-> batch'.last.event.server_id,
                            name |-> batch'.last.event.victim_name,
                            kills |-> 0, deaths |-> 0, suicides |-> 0]
           IN  /\ db'.kills = db.kills
               /\ db'.rivalries = db.rivalries
               /\ DOMAIN db'.players = DOMAIN db.players \cup {v}
               /\ \A p \in DOMAIN db.players \ {v} : db'.players[p] = db.players[p]
               /\ db'.players[v] = [old EXCEPT !.suicides = @ + 1] ]_vars

\* player 2 is the only player and has two suicides and nothing else, the
\* second one found by the names of an event with two different ids
C16_Witness ==
    /\ batch.last.outcome = "processed"
    /\ batch.i = 3
    /\ batch.last.event.killer_id = "1"
    /\ batch.last.event.victim_id = "2"
    /\ batch.last.event.killer_name = "K"
    /\ batch.last.event.victim_name = "K"
    /\ batch.last.event.weapon = "AK47"
    /\ DOMAIN db.players = {"2"}
    /\ db.players["2"].suicides = 2
    /\ db.players["2"].kills = 0
    /\ db.players["2"].deaths = 0
    /\ db.rivalries = <<>>
    /\ db.kills = <<>>

\* C17: an applied event with two different non-empty ids that is no suicide
\* gives the killer one kill more and the victim one death more (a new
\* player starts from zero), counts one kill more on the rivalry edge of
\* (server, killer, victim, weapon) and appends exactly one kill document
\* with the fields of the event and is_suicide = FALSE; nothing else
\* changes.  On the empty database the row K;1;V;2;AK47;100 leaves player 1
\* with one kill and player 2 with one death.
C17_KillChangesKillerVictimEdgeAndDocument ==
    [][ ( /\ batch.status = "events"
          /\ batch'.i = batch.i + 1
          /\ batch'.last.outcome = "processed"
          /\ LET e == batch'.last.event
             IN  /\ e.killer_id # ""
                 /\ e.victim_id # ""
                 /\ e.killer_id # e.victim_id
                 /\ e.weapon \notin {"suicide_by_relocation", "suicide"}
                 /\ ~(e.killer_name # "" /\ e.killer_name = e.victim_name) )
        => LET e    == batch'.last.event
               edge == <<e.server_id, e.killer_id, e.victim_id, e.weapon>>
               old(id, name) ==
                   IF id \in DOMAIN db.players
                   THEN db.players[id]
                   ELSE [server_id |-> e.server_id, name |-> name,
                         kills |-> 0, deaths |-> 0, suicides |-> 0]
           IN  /\ DOMAIN db'.players = DOMAIN db.players \cup {e.killer_id, e.victim_id}
               /\ \A p \in DOMAIN db.players \ {e.killer_id, e.victim_id} :
                      db'.players[p] = db.players[p]
               /\ db'.players[e.killer_id] =
                      [old(e.killer_id, e.killer_name) EXCEPT !.kills = @ + 1]
               /\ db'.players[e.victim_id] =
                      [old(e.victim_id, e.victim_name) EXCEPT !.deaths = @ + 1]
               /\ DOMAIN db'.rivalries = DOMAIN db.rivalries \cup {edge}
               /\ \A x \in DOMAIN db.rivalries \ {edge} :
                      db'.rivalries[x] = db.rivalries[x]
               /\ db'.rivalries[edge] =
                      IF edge \in DOMAIN db.rivalries THEN db.rivalries[edge] + 1 ELSE 1
               /\ Len(db'.kills) = Len(db.kills) + 1
               /\ SubSeq(db'.kills, 1, Len(db.kills)) = db.kills
               /\ db'.kills[Len(db'.kills)] =
                      [server_id |-> e.server_id, killer_id |-> e.killer_id,
                       killer_name |-> e.killer_name, victim_id |-> e.victim_id,
                       victim_name |-> e.victim_name, weapon |-> e.weapon,
                       distance |-> e.distance, timestamp |-> e.timestamp,
                       is_suicide |-> FALSE]
               /\ ( /\ db.players = <<>>
                    /\ e.killer_name = "K" /\ e.killer_id = "1"
                    /\ e.victim_name = "V" /\ e.victim_id = "2"
                    /\ e.weapon = "AK47" )
                  => /\ db'.players["1"].kills = 1
                     /\ db'.players["2"].deaths = 1 ]_vars

\* the row K;1;V;2;AK47;100 was applied as the first event of a file
C17_Witness ==
    /\ batch.i = 2
    /\ batch.last.outcome = "processed"
    /\ batch.last.event.killer_name = "K"
    /\ batch.last.event.killer_id = "1"
    /\ batch.last.event.victim_name = "V"
    /\ batch.last.event.victim_id = "2"
    /\ batch.last.event.weapon = "AK47"
    /\ batch.last.event.distance = 100
    /\ DOMAIN db.players = {"1", "2"}
    /\ db.players["1"].kills = 1
    /\ db.players["2"].deaths = 1
    /\ db.rivalries[<<"1", "1", "2", "AK47">>] = 1
    /\ Len(db.kills) = 1
    /\ db.kills[1].is_suicide = FALSE

\* C18: an applied event with the weapon suicide_by_relocation and a
\* killer_id other than its victim_id is a suicide of the victim, and a
\* document of it is stored among the kills whose killer_id is the
\* victim_id of the event.
C18_RelocationSuicideIsStoredWithVictimAsKiller ==
    [][ ( /\ batch.status = "events"
          /\ batch'.i = batch.i + 1
          /\ batch'.last.outcome = "processed"
          /\ batch'.last.event.weapon = "suicide_by_relocation"
          /\ batch'.last.event.killer_id # batch'.last.event.victim_id )
        => /\ SuicideCheck(batch'.last.event).is_suicide
           /\ Len(db'.kills) = Len(db.kills) + 1
           /\ db'.kills[Len(db'.kills)].is_suicide
           /\ db'.kills[Len(db'.kills)].victim_id = batch'.last.event.victim_id
           /\ db'.kills[Len(db'.kills)].killer_id = batch'.last.event.victim_id ]_vars

\* C19: an event with an empty victim_id is dropped, whatever its killer,
\* its names and its weapon are: the round of the loop that handles it
\* leaves every player, every rivalry edge and the kill documents as they
\* were and counts no processed event, and _process_kill_event itself
\* returns False for it with the database untouched.
C19_EventWithoutVictimChangesNothing ==
    [][ ( /\ batch.status = "events"
          /\ batch'.i = batch.i + 1
          /\ batch'.last.event.victim_id = "" )
        => /\ db' = db
           /\ batch'.processed_count = batch.processed_count
           /\ \A done \in 0..Len(Operations(batch'.last.event)) :
                  process_kill_event(db, batch'.last.event, done) =
                      [db |-> db, accepted |-> FALSE, success |-> FALSE] ]_vars

\* after a kill was applied, an event without victim_id that carries the
\* weapon of a suicide and two equal names was handled, and the store
\* still holds the effects of the kill alone
C19_Witness ==
    /\ batch.i = 3
    /\ batch.last.outcome = "unknown"
    /\ batch.last.event.victim_id = ""
    /\ batch.last.event.killer_id = "1"
    /\ batch.last.event.weapon = "suicide_by_relocation"
    /\ batch.last.event.killer_name = "K"
    /\ batch.last.event.victim_name = "K"
    /\ batch.processed_count = 1
    /\ DOMAIN db.players = {"1", "2"}
    /\ db.players["1"].suicides = 0
    /\ Len(db.kills) = 1

\* C20: a persistence failure while an event is applied does not end the
\* file.  The round that fails moves the loop to the next position of the
\* file and counts nothing; from there, as from any other position, the
\* loop handles the event at its position and moves on by one, and it ends
\* only behind the last event, where the file is counted as processed
\* together with the events that were applied.
C20_FailureDoesNotAbortFile ==
    [][ /\ ( /\ batch.status = "events"
             /\ batch'.status = "events"
             /\ batch' # batch
             /\ batch'.last.outcome = "failed" )
           => /\ batch'.i = batch.i + 1
              /\ batch'.n = batch.n
              /\ batch.i <= batch.n
              /\ batch'.processed_count = batch.processed_count
              /\ batch'.files_processed = batch.files_processed
        /\ ( /\ batch.status = "events"
             /\ batch.last.outcome = "failed"
             /\ batch' # batch )
           => IF batch.i <= batch.n
              THEN /\ batch'.status = "events"
                   /\ batch'.i = batch.i + 1
                   /\ batch'.last.outcome # "none"
                   /\ batch'.last.outcome = "processed"
                          => /\ batch'.processed_count = batch.processed_count + 1
                             /\ db' = process_kill_event(db, batch'.last.event,
                                           Len(Operations(batch'.last.event))).db
              ELSE /\ batch'.status = "done"
                   /\ batch'.i = batch.n + 1
                   /\ batch'.files_processed = batch.files_processed + 1
                   /\ batch'.events_processed =
                          batch.events_processed + batch.processed_count ]_vars

\* a file of two events is over and counted: the kill of player 2 by
\* player 1 failed after player 1 was created, and the suicide of player 2
\* after it was applied
C20_Witness ==
    /\ batch.status = "done"
    /\ batch.n = 2
    /\ batch.i = 3
    /\ batch.files_processed = 1
    /\ batch.events_processed = 1
    /\ batch.last.outcome = "processed"
    /\ batch.last.event.victim_id = "2"
    /\ DOMAIN db.players = {"1", "2"}
    /\ db.players["1"] = [server_id |-> "1", name |-> "K",
                          kills |-> 0, deaths |-> 0, suicides |-> 0]
    /\ db.players["2"].suicides = 1
    /\ db.kills = <<>>

\* C21: players are looked up and created by (server, player id): after an
\* event of a server is applied, the record of its victim that took the
\* update is a record of that server, and when the store held no record of
\* that server for the victim before, the record starts from zeroed
\* counters, so that it shows the one update of this event only.
C21_PlayersAreKeyedByServerAndId ==
    [][ ( /\ batch.status = "events"
          /\ batch'.i = batch.i + 1
          /\ batch'.last.outcome = "processed" )
        => LET e == batch'.last.event
               v == batch'.last.event.victim_id
           IN  /\ db'.players[v].server_id = e.server_id
               /\ ( \/ v \notin DOMAIN db.players
                    \/ db.players[v].server_id # e.server_id )
                  => db'.players[v].kills + db'.players[v].deaths
                         + db'.players[v].suicides = 1 ]_vars

\* C22: identify_server gives the same stable id for every uuid one server
\* has had: the numeric ids the identity test prints for its rotated uuids,
\* called with the same hostname, server name and guild, are all the same.
C22_RotatedUuidsGiveOneStableId ==
    \A i, j \in 1..Len(call.numeric_ids) :
        call.numeric_ids[i].id = call.numeric_ids[j].id

\* C24 as stated: for every file name the primary pattern matches, the
\* timestamp in the name is parsed and the parsed value, written in the
\* primary format, is the text of the name before '.csv'.
C24_EveryPatternNameRoundTrips ==
    call.file_date.file # <<>>
        => /\ call.file_date.date.ok
           /\ call.file_date.text = BeforeCsv(call.file_date.file)

\* C24, amended: for every file name the primary pattern matches whose
\* digits are a date and a time of day (a year from 1000 on, a month from 01
\* to 12, a day of that month, an hour up to 23, a minute and a second up to
\* 59), the timestamp in the name is parsed and the parsed value, written in
\* the primary format, is the text of the name before '.csv'.
C24_EveryDatedPatternNameRoundTrips ==
    LET f == call.file_date.file
        n(i) == NumVal(SubSeq(call.file_date.file, i, i + 1))
        y == NumVal(SubSeq(call.file_date.file, 1, 4))
    IN  ( /\ f # <<>>
          /\ y >= 1000
          /\ n(6) \in 1..12
          /\ n(9) >= 1
          /\ n(9) <= DaysInMonth(y, n(6))
          /\ n(12) <= 23
          /\ n(15) <= 59
          /\ n(18) <= 59 )
        => /\ call.file_date.date.ok
           /\ call.file_date.text = BeforeCsv(f)

\* the name of the last second of 2025 was parsed and written back
C24_Witness ==
    /\ call.file_date.file =
           <<"2", "0", "2", "5", ".", "1", "2", ".", "3", "1", "-",
             "2", "3", ".", "5", "9", ".", "5", "9", ".", "c", "s", "v">>
    /\ call.file_date.date.ok
    /\ call.file_date.date.dt = MkDateTime(2025, 12, 31, 23, 59, 59)
    /\ call.file_date.text = SubSeq(call.file_date.file, 1, 19)

\* C23: no path with a parent-traversal segment is used against the remote
\* store: a run for a server whose deathlogs path contains '..' returns
\* (0, 0) and never gets to look for, list, find or read a file of that
\* server; no search strategy runs for it.
C23_TraversalPathIsNeverUsed ==
    \A t \in Tasks :
        ( /\ frame[t].srv # ""
          /\ Contains(deathlogs_path(frame[t].srv), <<".", ".">>) )
        => /\ pc[t] \notin {"file", "apply"}
           /\ frame[t].strategy = "none"
           /\ frame[t].remote = {}
           /\ frame[t].csv_files = <<>>
           /\ frame[t].files_to_process = <<>>
           /\ frame[t].parsed = {}
           /\ frame[t].files_processed = 0
           /\ frame[t].events_processed = 0

\* the run for server 3 returned although the store holds a file at the
\* deathlogs path of server 3
C23_Witness ==
    /\ pc[RunTask] = "ret"
    /\ frame[RunTask].srv = "3"
    /\ Contains(deathlogs_path("3"), <<".", ".">>)
    /\ PathJoin(deathlogs_path("3"), Name.new) \in store["3"]
    /\ "3" \in DOMAIN sftp_managers
    /\ sftp_managers["3"] = ""
    /\ frame[RunTask].files_processed = 0

\* C25: when the routine returns from a run that attempted at least one
\* file, the cursor of its server is the timestamp embedded in the name of
\* the last file of the sorted files to process, whether or not that file
\* could be read and whether or not its rows were applied.
C25_CursorIsStampOfLastAttemptedFile ==
    \A t \in Tasks :
        (pc[t] = "ret" /\ frame[t].files_to_process # <<>>)
        => LET f    == frame[t]
               last == f.files_to_process[Len(f.files_to_process)]
           IN  EmbeddedStamp(last).ok
               => CursorOf(last_processed, f.srv) = [set |-> TRUE, dt |-> EmbeddedStamp(last).dt]

\* C26: the search strategies stop at the first one that finds files: when
\* the map directories of the server hold files, these are the result of the
\* search and the listing of the predefined paths does not replace them;
\* when they hold none and a predefined path lists files, those are the
\* result; and the files the routine goes on with are the files found.
C26_FirstStrategyWithFilesWins ==
    \A t \in Tasks :
        (frame[t].srv # "" /\ frame[t].strategy \notin {"none", "local"})
        => LET f      == frame[t]
               paths  == possible_paths(f.srv)
               maps   == MapDirectoryFiles(store[f.srv], f.srv)
               listed == Listed(paths, Listings(store[f.srv], paths,
                                                ServerConfig(f.srv).csv_pattern), 1)
           IN  /\ maps # {} => (f.strategy = "map" /\ f.remote = maps)
               /\ (maps = {} /\ listed.outcome = "break")
                     => (f.strategy = "list" /\ f.remote = listed.remote)
               /\ pc[t] \in {"file", "apply"}
                     => {Basename(f.csv_files[k]) : k \in 1..Len(f.csv_files)}
                           = {Basename(x) : x \in f.remote}

\* C27: the files of a run are handled in ascending order of the date in
\* their name, a name that is not a date counting as 2000-01-01: a file is
\* parsed and applied only when no file of the run with a smaller date is
\* still to come, and every file applied before it has a date that is not
\* later.
C27_FilesAreAppliedInDateOrder ==
    [][\A t \in Tasks :
          frame'[t].parsed \ frame[t].parsed # {}
          => LET f      == frame[t]
                 r(x)   == Strptime(BeforeCsv(Basename(x)))
                 key(x) == IF r(x).ok THEN r(x).dt ELSE MkDateTime(2000, 1, 1, 0, 0, 0)
                 file   == f.files_to_process[f.i]
             IN  /\ frame'[t].parsed = f.parsed \cup {file}
                 /\ \A x \in f.parsed : key(x) <= key(file)
                 /\ \A k \in 1..Len(f.files_to_process) :
                        key(f.files_to_process[k]) < key(file) => k < f.i
                 /\ \A k \in 1..Len(f.files_to_process) :
                        key(f.files_to_process[k]) > key(file) => k > f.i]_vars

\* a run returned that applied three files, one without a date in its name,
\* which the listing had given in another order
C27_Witness ==
    /\ pc[RunTask] = "ret"
    /\ frame[RunTask].files_processed = 3
    /\ frame[RunTask].files_to_process =
           <<PathJoin(test_dir, Name.no_date), PathJoin(test_dir, Name.old),
             PathJoin(test_dir, Name.new)>>
    /\ frame[RunTask].new_files =
           <<PathJoin(test_dir, Name.new), PathJoin(test_dir, Name.old),
             PathJoin(test_dir, Name.no_date)>>
    /\ frame[RunTask].parsed = Range(frame[RunTask].files_to_process)

\* C28 (as stated): a run with files to process parses them in full exactly
\* when the lookback of its request is more than 7 days; with a lookback of
\* 7 days or less, and in a scheduled run, only the new lines are parsed.
C28_HistoricalExactlyBeyondSevenDays ==
    \A t \in Tasks :
        (pc[t] \in {"file", "apply", "ret"} /\ frame[t].files_to_process # <<>>)
        => LET f        == frame[t]
               lookback == IF f.kind = "historical" THEN f.amount * SecondsPerDay
                           ELSE IF f.kind = "process_csv" THEN f.amount * SecondsPerHour
                           ELSE 0
           IN  f.only_new_lines = ~(lookback > 7 * SecondsPerDay)

\* C28 (amended): a run with files to process parses them in full exactly
\* when it is a historical parse whose lookback is 7 days or more; a
\* historical parse of fewer days, and every run that is given no start
\* date (a scheduled run, a process_csv command), parses only the new lines.
C28_HistoricalExactlyFromSevenDays ==
    \A t \in Tasks :
        (pc[t] \in {"file", "apply", "ret"} /\ frame[t].files_to_process # <<>>)
        => LET f == frame[t]
           IN  f.only_new_lines = ~(f.kind = "historical" /\ f.amount >= 7)

\* a historical parse of exactly 7 days has applied a file in full
C28_Witness ==
    /\ pc[RunTask] = "ret"
    /\ frame[RunTask].kind = "historical"
    /\ frame[RunTask].amount = 7
    /\ frame[RunTask].start_date = SomeDate(frame[RunTask].started - 7 * SecondsPerDay)
    /\ frame[RunTask].files_processed >= 1
    /\ ~frame[RunTask].only_new_lines

\* C29: a scheduled cycle starts a server only while no more than the budget
\* of 300 seconds has passed since its start; at the head of the loop with
\* the budget spent the cycle ends without starting the server that is
\* next; and a server in progress is never ended by the budget: a step that
\* takes the cycle out of the routine before it returned is the timeout of
\* that server, and with the budget spent and the server's own time not up
\* every step leaves the cycle, its flag and its position as they are.
C29_BudgetStopsStartingServers ==
    [][ /\ (pc[SCHED] = "loop" /\ pc'[SCHED] = "begin")
           => now - cycle.start_time <= 300
        /\ ( /\ pc[SCHED] = "loop" /\ pc'[SCHED] # "loop"
             /\ now - cycle.start_time > 300 )
           => /\ pc'[SCHED] = "idle"
              /\ frame' = frame
              /\ last_processed' = last_processed
        /\ ( /\ pc[SCHED] \in {"begin", "discover", "file", "apply"}
             /\ pc'[SCHED] \notin {"begin", "discover", "file", "apply", "ret"} )
           => now - frame[SCHED].started >= 120
        /\ ( /\ pc[SCHED] \in {"begin", "discover", "file", "apply"}
             /\ now - cycle.start_time > 300
             /\ now - frame[SCHED].started < 120 )
           => /\ pc'[SCHED] \in {"begin", "discover", "file", "apply", "ret"}
              /\ cycle' = cycle
              /\ is_processing' ]_vars

\* a cycle over two servers is over: its first server was started within
\* the budget and went on to search for files when more than 300 seconds
\* had passed, and the second server was not started
C29_Witness ==
    /\ pc[SCHED] = "idle"
    /\ ~is_processing
    /\ now - Now0 > 300
    /\ \E e \in log : e.what = "budget" /\ e.srv = "2" /\ e.tick = 1
    /\ \A e \in log : e.what # "timeout"
    /\ "1" \in DOMAIN last_processed
    /\ last_processed["1"] >= old_time(now)
    /\ "2" \notin DOMAIN last_processed

\* C30: a tick whose memory check finds the process above the limit skips
\* the whole cycle: the step leaves the flag unset, the scheduled task idle
\* and no server started, and changes no cursor, no player or kill and no
\* line of the log; a tick whose check raised starts the cycle all the
\* same: the flag is set and the configurations are fetched next.
C30_HighMemorySkipsTheCycle ==
    [][ /\ (used'.ticks = used.ticks + 1 /\ last_tick' = "memory")
           => /\ ~is_processing'
              /\ pc' = pc /\ pc[SCHED] = "idle"
              /\ frame' = frame
              /\ cycle' = cycle
              /\ last_processed' = last_processed
              /\ db' = db
              /\ log' = log
        /\ (\E e \in log' \ log : e.what = "memory_error")
           => /\ used'.ticks = used.ticks + 1
              /\ last_tick' = "started"
              /\ is_processing'
              /\ pc'[SCHED] = "get_configs"
              /\ cycle'.start_time = now ]_vars

\* the second tick was skipped for the memory, after a first tick whose
\* check raised and whose cycle ran and wrote the cursor of a server
C30_Witness ==
    /\ last_tick = "memory"
    /\ used.ticks = 2
    /\ pc[SCHED] = "idle"
    /\ ~is_processing
    /\ \E e \in log : e.what = "memory_error" /\ e.tick = 1
    /\ "1" \in DOMAIN last_processed

\* C31 (as stated): for a server id that is not in the table, is not all
\* digits and has runs of four or more digits, identify_server returns one
\* of these runs and none of them is longer than the one returned; the id
\* does not count as known.
C31_LongestRunOfFourDigitsIsTaken ==
    call.identify.called
    => LET s    == call.identify.server_id
           r    == call.identify.result
           digit(i) == s[i] \in {"0", "1", "2", "3", "4", "5", "6", "7", "8", "9"}
           runs == {p \in (1..Len(s)) \X (1..Len(s)) :
                       /\ p[1] <= p[2]
                       /\ \A i \in p[1]..p[2] : digit(i)
                       /\ p[1] = 1 \/ ~digit(p[1] - 1)
                       /\ p[2] = Len(s) \/ ~digit(p[2] + 1)
                       /\ p[2] - p[1] + 1 >= 4}
       IN  ( /\ s \notin DOMAIN call.identify.known
             /\ \E i \in 1..Len(s) : ~digit(i)
             /\ runs # {} )
           => /\ ~r.known
              /\ \E p \in runs :
                    /\ r.id = SubSeq(s, p[1], p[2])
                    /\ \A q \in runs : q[2] - q[1] <= p[2] - p[1]

\* C31 (amended): for such a server id identify_server returns the first of
\* the runs of four or more digits, in the order in which they stand in the
\* id; the id does not count as known.
C31_FirstRunOfFourDigitsIsTaken ==
    call.identify.called
    => LET s    == call.identify.server_id
           r    == call.identify.result
           digit(i) == s[i] \in {"0", "1", "2", "3", "4", "5", "6", "7", "8", "9"}
           runs == {p \in (1..Len(s)) \X (1..Len(s)) :
                       /\ p[1] <= p[2]
                       /\ \A i \in p[1]..p[2] : digit(i)
                       /\ p[1] = 1 \/ ~digit(p[1] - 1)
                       /\ p[2] = Len(s) \/ ~digit(p[2] + 1)
                       /\ p[2] - p[1] + 1 >= 4}
       IN  ( /\ s \notin DOMAIN call.identify.known
             /\ \E i \in 1..Len(s) : ~digit(i)
             /\ runs # {} )
           => /\ ~r.known
              /\ \E p \in runs :
                    /\ r.id = SubSeq(s, p[1], p[2])
                    /\ \A q \in runs : p[1] <= q[1]

\* the call for 'a12b3456' returned 3456, the run behind a shorter one
C31_Witness ==
    /\ call.identify.called
    /\ call.identify.server_id = <<"a", "1", "2", "b", "3", "4", "5", "6">>
    /\ call.identify.known = KNOWN_SERVERS
    /\ call.identify.result = [id |-> <<"3", "4", "5", "6">>, known |-> FALSE]

\* C32 (as stated): a server id of the table resolves to its value in the
\* table and counts as known, also when it is all digits; any other id that
\* is all digits is returned as it is; and an id that is not in the table,
\* not all digits and without a run of four or more digits is returned
\* unchanged.
C32_TableThenNumericThenUnchanged ==
    call.identify.called
    => LET s == call.identify.server_id
           r == call.identify.result
           digit(i) == s[i] \in {"0", "1", "2", "3", "4", "5", "6", "7", "8", "9"}
           numeric  == Len(s) > 0 /\ \A i \in 1..Len(s) : digit(i)
           long_run == \E i \in 1..Len(s) :
                          i + 3 <= Len(s) /\ \A k \in i..(i + 3) : digit(k)
       IN  /\ s \in DOMAIN call.identify.known
                => r = [id |-> call.identify.known[s], known |-> TRUE]
           /\ (s \notin DOMAIN call.identify.known /\ numeric)
                => r = [id |-> s, known |-> FALSE]
           /\ (s \notin DOMAIN call.identify.known /\ ~numeric /\ ~long_run)
                => r = [id |-> s, known |-> FALSE]

\* C32 (amended): a server id of the table resolves to its value in the
\* table and counts as known, also when it is all digits; any other id that
\* is all digits is returned as it is; and an id that is not in the table
\* and has no digit at all is returned unchanged, while one whose runs of
\* digits are all shorter than four gives the first of its runs.
C32_TableThenNumericThenFirstRun ==
    call.identify.called
    => LET s == call.identify.server_id
           r == call.identify.result
           digit(i) == s[i] \in {"0", "1", "2", "3", "4", "5", "6", "7", "8", "9"}
           numeric  == Len(s) > 0 /\ \A i \in 1..Len(s) : digit(i)
           long_run == \E i \in 1..Len(s) :
                          i + 3 <= Len(s) /\ \A k \in i..(i + 3) : digit(k)
           first    == CHOOSE i \in 1..Len(s) : digit(i) /\ \A k \in 1..(i - 1) : ~digit(k)
           last     == CHOOSE j \in first..Len(s) :
                          /\ \A k \in first..j : digit(k)
                          /\ j = Len(s) \/ ~digit(j + 1)
       IN  /\ s \in DOMAIN call.identify.known
                => r = [id |-> call.identify.known[s], known |-> TRUE]
           /\ (s \notin DOMAIN call.identify.known /\ numeric)
                => r = [id |-> s, known |-> FALSE]
           /\ (s \notin DOMAIN call.identify.known /\ \A i \in 1..Len(s) : ~digit(i))
                => r = [id |-> s, known |-> FALSE]
           /\ ( /\ s \notin DOMAIN call.identify.known /\ ~numeric /\ ~long_run
                /\ \E i \in 1..Len(s) : digit(i) )
                => r = [id |-> SubSeq(s, first, last), known |-> FALSE]

\* the call for the numeric id '7', which the table maps to '9999',
\* returned the value of the table
C32_Witness ==
    /\ call.identify.called
    /\ call.identify.server_id = <<"7">>
    /\ <<"7">> \in DOMAIN call.identify.known
    /\ call.identify.result = [id |-> <<"9", "9", "9", "9">>, known |-> TRUE]

C40_OneEntryPerServerFromTheFirstSource ==
    (call.configs.called /\ call.configs.reads = 3) =>
        LET c        == call.configs
            sftp     == {"sftp_host", "sftp_username", "sftp_password"}
            sources  == <<c.d.servers, c.d.game_servers, c.d.guilds>>
            Holds(n, id) ==
                {k \in 1..Len(sources[n]) :
                    /\ sftp \subseteq sources[n][k].keys
                    /\ safe_standardize_server_id(sources[n][k].server_id) = id}
            ids      == {id \in UNION {{safe_standardize_server_id(sources[n][k].server_id) :
                                           k \in 1..Len(sources[n])} : n \in 1..3} :
                            id # <<>> /\ \E n \in 1..3 : Holds(n, id) # {}}
            entries(id) == {k \in 1..Len(c.server_configs) :
                               c.server_configs[k].server_id = id}
        IN  /\ \A id \in ids :
                  /\ Cardinality(entries(id)) = 1
                  /\ \E n \in 1..3 :
                        /\ Holds(n, id) # {}
                        /\ \A m \in 1..(n - 1) : Holds(m, id) = {}
                        /\ \E k \in Holds(n, id), e \in entries(id) :
                              c.server_configs[e].hostname
                                 = BeforeColon(sources[n][k].sftp_host)
            /\ \A e \in 1..Len(c.server_configs) :
                  c.server_configs[e].server_id \in ids

\* C34: the delimiter is chosen from the counts of ';' and ',' in the whole
\* text, ';' when its count is greater than or equal to the comma count (so
\* also on a tie and for a text with neither), else ',', and every routine
\* that parses the text makes this same choice
C34_EveryRoutineChoosesSemicolonUnlessCommasPrevail ==
    call.delimiter.called =>
        LET c        == call.delimiter
            count(x) == Cardinality({i \in 1..Len(c.content) : c.content[i] = x})
            chosen   == {c.process_sample_csv, c.test_csv_processing,
                         c.analyze_csv_files} \ {""}
        IN  /\ chosen \subseteq {IF count(";") >= count(",") THEN ";" ELSE ","}
            /\ Cardinality(chosen) <= 1

\* C35: the events collected from a file are exactly its rows with at least
\* 6 fields whose timestamp parses under one of the five formats, in file
\* order, each with the timestamp of the first format in the priority
\* %Y.%m.%d-%H.%M.%S, %Y.%m.%d-%H:%M:%S, %Y-%m-%d-%H.%M.%S,
\* %Y-%m-%d %H:%M:%S, %Y.%m.%d %H:%M:%S that parses it; every other row is
\* passed over and the rows after it are still read
C35_EventsAreTheRowsWithSixFieldsAndAParsedTimestamp ==
    call.rows.called =>
        LET rows    == call.rows.rows
            events  == call.rows.events
            formats == << <<".", ".", "-", ".", ".">>, <<".", ".", "-", ":", ":">>,
                          <<"-", "-", "-", ".", ".">>, <<"-", "-", " ", ":", ":">>,
                          <<".", ".", " ", ":", ":">> >>
            Parsed(i, k) == StrptimeFmt(formats[k], Strip(rows[i][1]))
            good    == {i \in 1..Len(rows) :
                           Len(rows[i]) >= 6 /\ \E k \in 1..5 : Parsed(i, k).ok}
            Before(i) == Cardinality({j \in good : j < i})
        IN  /\ Len(events) = Cardinality(good)
            /\ \A i \in good :
                  \E k \in 1..5 :
                     /\ Parsed(i, k).ok
                     /\ \A j \in 1..(k - 1) : ~Parsed(i, j).ok
                     /\ events[Before(i) + 1].format_used = k
                     /\ events[Before(i) + 1].timestamp = Parsed(i, k).dt
                     /\ events[Before(i) + 1].killer_id = Strip(rows[i][3])

\* a file of three rows was parsed whose second row has no timestamp: the
\* first and the third row are its events, the third by the fourth format
C35_Witness ==
    /\ call.rows.called
    /\ Len(call.rows.rows) = 3
    /\ Len(call.rows.events) = 2
    /\ call.rows.rows[2][1] = <<"x">>
    /\ call.rows.events[1].format_used = 2
    /\ call.rows.events[2].format_used = 4
    /\ call.rows.events[2].timestamp = MkDateTime(2025, 5, 3, 12, 34, 56)

\* C36: is_processing is true whenever a run is between its start and its
\* end: while the scheduled task is in a cycle (from the start of the cycle
\* to its finally) and while a command is in its run (from taking the lock
\* to the return of the routine), however the tasks interleave; so no
\* run's completion leaves the flag clear while another run is in progress
C36_FlagIsSetWhileARunIsInProgress ==
    \A t \in Tasks :
        pc[t] \in {"get_configs", "loop", "sleep", "begin", "discover", "file",
                   "apply", "ret"}
        => is_processing

\* C37: the flag is always released. The step that ends a scheduled cycle
\* and the step that ends a historical run clear is_processing; a cycle
\* that has begun ends, whether it completes, finds no server configured,
\* has a server time out or meets an exception, and so does a historical
\* run that holds the lock; hence the flag never stays set forever
C37_FlagIsAlwaysReleased ==
    /\ [][ /\ (pc[SCHED] # "idle" /\ pc'[SCHED] = "idle") => ~is_processing'
           /\ \A t \in Commands :
                 (frame[t].kind = "historical" /\ pc[t] = "ret" /\ pc'[t] = "idle")
                 => ~is_processing' ]_vars
    /\ []<>(pc[SCHED] = "idle")
    /\ []<>(\A t \in Commands : frame[t].kind = "historical" => pc[t] = "idle")
    /\ []<>(~is_processing)

\* a cycle in which a server timed out has ended and the flag is clear
C37_Witness ==
    /\ pc[SCHED] = "idle"
    /\ ~is_processing
    /\ last_tick = "started"
    /\ \E e \in log : e.tick = used.ticks /\ e.what = "timeout"


\* C38: applying an event is all-or-nothing.  Whenever _process_kill_event
\* returns False, for an event it drops or for one whose persistence
\* fails at some step, the call has changed no counter of a player (a
\* record it created shows zeroes), no rivalry edge and no kill document.
C38_FailedEventLeavesNoTrace ==
    [][ ( /\ batch.status = "events"
          /\ batch'.status = "events"
          /\ batch' # batch
          /\ batch'.last.outcome \in {"failed", "dropped"} )
        => /\ \A p \in DOMAIN db'.players :
                 LET before == IF p \in DOMAIN db.players
                               THEN db.players[p]
                               ELSE [kills |-> 0, deaths |-> 0, suicides |-> 0]
                 IN  /\ db'.players[p].kills = before.kills
                     /\ db'.players[p].deaths = before.deaths
                     /\ db'.players[p].suicides = before.suicides
           /\ DOMAIN db.players \subseteq DOMAIN db'.players
           /\ db'.rivalries = db.rivalries
           /\ db'.kills = db.kills ]_vars


\* C39: an on-demand run with a lookback window (hours for a manual
\* resync, days for a historical backfill) selects no file whose parseable
\* embedded timestamp is older than the start of the window, the time of
\* the command minus the window, and no file whose embedded timestamp is
\* more than one hour in the future.
C39_OnDemandRunSelectsWithinItsWindow ==
    \A t \in Commands :
        HasSelected(t)
        => \A k \in 1..Len(frame[t].new_files) :
              LET x      == frame[t].new_files[k]
                  window == IF frame[t].kind = "process_csv"
                            THEN frame[t].amount * SecondsPerHour
                            ELSE frame[t].amount * SecondsPerDay
              IN  EmbeddedStamp(x).ok
                  => /\ EmbeddedStamp(x).dt >= frame[t].started - window
                     /\ EmbeddedStamp(x).dt <= now + FutureBufferHours * SecondsPerHour

====
